---- MODULE Spec2Model ----
(***************************************************************************)
(* Model of the variant comparison and scoring scripts of deep-genetic:    *)
(*   compare_vcf.py          normalize_chrom, parse_vcf, compare_variants,  *)
(*                           calculate_metrics, main                        *)
(*   somatic_analysis.py     read_vcf, fix_output_vcf,                      *)
(*                           fix_ground_truth_vcf, deepsomatic_scores       *)
(*   visualize_variants.py   get_variants and the module-level script       *)
(*   debug/vis.py            parse_vcf                                      *)
(*                                                                         *)
(* Python strings that the code takes apart (lines, chromosome labels, POS *)
(* tokens, ALT lists, sample values) are sequences of one-character        *)
(* strings, so that replace / split / strip / startswith / int() / float() *)
(* are computed as Python computes them; a Python int is held as its       *)
(* decimal text.  Ratios of counts are exact reduced fractions             *)
(* <<numerator, denominator>>.                                             *)
(*                                                                         *)
(* pandas and pysam are the environment of the scripts: a file that        *)
(* somatic_analysis.py reads is given as the DataFrame pd.read_csv makes   *)
(* of it, and a file that visualize_variants.py reads as the records       *)
(* pysam.VariantFile yields (or, for either, as the exception the reader   *)
(* raises); a file that compare_vcf.py or debug/vis.py reads is given as   *)
(* the lines of its text.                                                  *)
(***************************************************************************)
EXTENDS Integers, Sequences, FiniteSets, TLC

VARIABLES
    prog,            \* which script / unit is running
    pc,              \* position in that script
    err,             \* "none", or the Python exception that ended the run
    truth_file,      \* the ground-truth VCF, as the script's reader delivers it
    query_file,      \* the query (DeepSomatic output) VCF, likewise
    truth_variants,  \* what the script loaded from the truth file
    query_variants,  \* what the script loaded from the query file
    result,          \* the tp / fp / fn classification
    counts,          \* tp_count, fp_count, fn_count
    metrics,         \* precision, recall, f1
    label,           \* normalize_chrom unit: the raw chromosome label
    normed           \* normalize_chrom unit: results of successive applications

vars == <<prog, pc, err, truth_file, query_file, truth_variants, query_variants,
          result, counts, metrics, label, normed>>

----------------------------------------------------------------------------
(* Bounds of the model *)

\* longest chromosome label of the normalize_chrom unit
MaxLabelLen == 6
\* largest tp / fp / fn count of the calculate_metrics unit
MaxCount == 5
\* number of distinct variant keys of the compare_variants unit
MaxKeys == 4
\* total number of lines (records, rows) of the truth file and the query file together
MaxLines == 3

----------------------------------------------------------------------------
(* Python string helpers over sequences of characters *)

Digits == {"0", "1", "2", "3", "4", "5", "6", "7", "8", "9"}

DigitVal(c) ==
    CASE c = "0" -> 0 [] c = "1" -> 1 [] c = "2" -> 2 [] c = "3" -> 3
      [] c = "4" -> 4 [] c = "5" -> 5 [] c = "6" -> 6 [] c = "7" -> 7
      [] c = "8" -> 8 [] c = "9" -> 9

\* s.startswith(p)
startswith(s, p) == Len(s) >= Len(p) /\ SubSeq(s, 1, Len(p)) = p

\* s.replace(old, new): every non-overlapping occurrence, scanning left to right
RECURSIVE str_replace(_, _, _)
str_replace(s, old, new) ==
    IF s = <<>> THEN <<>>
    ELSE IF startswith(s, old)
         THEN new \o str_replace(SubSeq(s, Len(old) + 1, Len(s)), old, new)
         ELSE <<Head(s)>> \o str_replace(Tail(s), old, new)

\* s.split(sep) for a one-character separator: always at least one piece
str_split(s, sep) ==
    LET seps   == {i \in 1..Len(s) : s[i] = sep}
        \* the position of the k-th separator; 0 and Len(s) + 1 bound the string
        cut(k) == IF k = 0 THEN 0
                  ELSE IF k > Cardinality(seps) THEN Len(s) + 1
                  ELSE CHOOSE i \in seps : Cardinality({j \in seps : j < i}) = k - 1
    IN  [k \in 1..(Cardinality(seps) + 1) |-> SubSeq(s, cut(k - 1) + 1, cut(k) - 1)]

AllDigits(s) == s /= <<>> /\ \A i \in 1..Len(s) : s[i] \in Digits

RECURSIVE DigitsValue(_)
DigitsValue(s) ==
    IF s = <<>> THEN 0 ELSE 10 * DigitsValue(SubSeq(s, 1, Len(s) - 1)) + DigitVal(s[Len(s)])

\* the control characters that have no escape: vertical tab and the file,
\* group, record and unit separators (0x0b, 0x1c, 0x1d, 0x1e, 0x1f)
VT == ""
FS == ""
GS == ""
RS == ""
US == ""

\* the ASCII characters int() and float() strip from both ends of their
\* argument, which are also those the C parser of pandas skips around a number
Whitespace == {" ", "\t", "\n", VT, "\f", "\r"}

\* the ASCII characters str.strip() removes: those for which isspace() holds
StrWhitespace == Whitespace \cup {FS, GS, RS, US}

\* s without its leading characters of the set ws, and without its trailing ones
RECURSIVE lstrip_of(_, _)
lstrip_of(s, ws) == IF s /= <<>> /\ Head(s) \in ws THEN lstrip_of(Tail(s), ws) ELSE s

RECURSIVE rstrip_of(_, _)
rstrip_of(s, ws) ==
    IF s /= <<>> /\ s[Len(s)] \in ws THEN rstrip_of(SubSeq(s, 1, Len(s) - 1), ws) ELSE s

lstrip(s) == lstrip_of(s, Whitespace)
rstrip(s) == rstrip_of(s, Whitespace)

\* s with the whitespace around a number removed
strip(s) == rstrip(lstrip(s))

\* s.strip()
str_strip(s) == rstrip_of(lstrip_of(s, StrWhitespace), StrWhitespace)

\* sep.join(parts)
RECURSIVE str_join(_, _)
str_join(parts, sep) ==
    IF parts = <<>> THEN <<>>
    ELSE IF Len(parts) = 1 THEN parts[1]
    ELSE parts[1] \o sep \o str_join(Tail(parts), sep)

\* the characters of a string written as a literal
Chars(s) == [i \in 1..Len(s) |-> SubSeq(s, i, i)]

\* digits without their leading zeros
NoLeadingZeros(d) ==
    SubSeq(d, Cardinality({k \in 1..Len(d) : \A j \in 1..k : d[j] = "0"}) + 1, Len(d))

\* digits with single underscores between them: digit (["_"] digit)*
DigitPart(s) ==
    /\ s /= <<>>
    /\ \A i \in 1..Len(s) : s[i] \in Digits \cup {"_"}
    /\ s[1] \in Digits /\ s[Len(s)] \in Digits
    /\ \A i \in 1..(Len(s) - 1) : ~(s[i] = "_" /\ s[i + 1] = "_")

\* s without its underscores
no_underscores(s) == SelectSeq(s, LAMBDA c : c /= "_")

\* s without a leading sign
unsigned(s) == IF s /= <<>> /\ Head(s) \in {"+", "-"} THEN Tail(s) ELSE s

\* sys.int_info.default_max_str_digits: int() refuses a text of more digits
MaxStrDigits == 4300

\* int(s) of an ASCII string: surrounding whitespace, one sign and underscores
\* between digits are accepted, up to MaxStrDigits digits; int_ok(s) false
\* stands for ValueError
int_ok(s) ==
    /\ DigitPart(unsigned(strip(s)))
    /\ Len(no_underscores(unsigned(strip(s)))) <= MaxStrDigits

\* the int of a sign and of digits without leading zeros, as its text str(n)
int_text(neg, digits) ==
    IF digits = <<>> THEN <<"0">> ELSE IF neg THEN <<"-">> \o digits ELSE digits

int_val(s) ==
    int_text(Head(strip(s)) = "-", NoLeadingZeros(no_underscores(unsigned(strip(s)))))

----------------------------------------------------------------------------
(* Python floats: IEEE 754 binary64.  A finite double is m * 2^q, m being    *)
(* the sequence of its MantissaBits bits, most significant first; zero and   *)
(* the subnormals have q = MinExponent.                                      *)

MantissaBits == 53
\* the exponent of the last mantissa bit of the subnormals: 2^-1074
MinExponent == 0 - 1074
\* the exponent of the first mantissa bit of the largest doubles: 2^1023
MaxExponent == 1023
\* decimal exponents beyond which a literal is infinite, or zero, whatever its digits
MaxDecimalExponent == 309
MinDecimalExponent == 0 - 323
\* log2(10) lies between these two, in thousandths
Log2Of10Low == 3321
Log2Of10High == 3322
\* the arithmetic works on limbs of this many bits ...
LimbBits == 15
Base == 2^LimbBits
\* ... and on this many decimal digits at a time: 10^MaxChunk * Base is a machine integer
MaxChunk == 4

Zeros(n) == [i \in 1..n |-> 0]

AllZero(d) == \A i \in 1..Len(d) : d[i] = 0

float_zero(neg) == [cls |-> "finite", neg |-> neg, q |-> MinExponent, m |-> Zeros(MantissaBits)]
float_inf(neg) == [cls |-> "inf", neg |-> neg, q |-> 0, m |-> <<>>]
float_nan == [cls |-> "nan", neg |-> FALSE, q |-> 0, m |-> <<>>]

\* a sequence of decimal digits (most significant first) without its leading zeros
StripLeadingZeros(d) ==
    IF AllZero(d) THEN <<>>
    ELSE SubSeq(d, CHOOSE i \in 1..Len(d) : d[i] /= 0 /\ \A j \in 1..(i - 1) : d[j] = 0, Len(d))

\* ... and without its trailing zeros
StripTrailingZeros(d) ==
    IF AllZero(d) THEN <<>>
    ELSE SubSeq(d, 1, CHOOSE i \in 1..Len(d) : d[i] /= 0 /\ \A j \in (i + 1)..Len(d) : d[j] = 0)

\* Op applied to the value of x: the value is computed before Op is entered,
\* which keeps the nesting of the evaluation shallow
Then(x, Op(_)) == CHOOSE r \in {Op(v) : v \in {x}} : TRUE

\* the value of a short sequence of decimal digits
RECURSIVE DigitsNat(_)
DigitsNat(d) ==
    IF d = <<>> THEN 0 ELSE 10 * DigitsNat(SubSeq(d, 1, Len(d) - 1)) + d[Len(d)]

\* Integers of any size are sequences of limbs in base Base, most significant
\* first, without leading zeros; the empty sequence is zero.

\* the limbs of x * k + c with the carry in front, for k and c up to 10^MaxChunk
RECURSIVE MulCarry(_, _, _)
MulCarry(x, k, c) ==
    IF x = <<>> THEN <<c>>
    ELSE IF Len(x) = 1 THEN <<(x[1] * k + c) \div Base, (x[1] * k + c) % Base>>
    ELSE LET h == Len(x) \div 2
         IN  Then(MulCarry(SubSeq(x, h + 1, Len(x)), k, c),
                  LAMBDA low : MulCarry(SubSeq(x, 1, h), k, Head(low)) \o Tail(low))

MulAdd(x, k, c) == StripLeadingZeros(MulCarry(x, k, c))

\* the limbs of (r * Base^Len(x) + x) \div k followed by the remainder
RECURSIVE DivRem(_, _, _)
DivRem(x, k, r) ==
    IF x = <<>> THEN <<r>>
    ELSE IF Len(x) = 1 THEN <<(r * Base + x[1]) \div k, (r * Base + x[1]) % k>>
    ELSE LET h == Len(x) \div 2
         IN  Then(DivRem(SubSeq(x, 1, h), k, r),
                  LAMBDA high : SubSeq(high, 1, h)
                                \o DivRem(SubSeq(x, h + 1, Len(x)), k, high[h + 1]))

\* x \div k
Div(x, k) == StripLeadingZeros(SubSeq(DivRem(x, k, 0), 1, Len(x)))

\* x * 10^n
RECURSIVE MulPow10(_, _)
MulPow10(x, n) ==
    IF n <= MaxChunk THEN MulAdd(x, 10^n, 0)
    ELSE Then(MulPow10(x, n \div 2), LAMBDA y : MulPow10(y, n - n \div 2))

\* x \div 10^n
RECURSIVE DivPow10(_, _)
DivPow10(x, n) ==
    IF n <= MaxChunk THEN Div(x, 10^n)
    ELSE Then(DivPow10(x, n \div 2), LAMBDA y : DivPow10(y, n - n \div 2))

\* the integer whose decimal digits are those of x followed by d
RECURSIVE FromDigits(_, _)
FromDigits(x, d) ==
    IF Len(d) <= MaxChunk THEN MulAdd(x, 10^Len(d), DigitsNat(d))
    ELSE LET h == Len(d) \div 2
         IN  Then(FromDigits(x, SubSeq(d, 1, h)),
                  LAMBDA y : FromDigits(y, SubSeq(d, h + 1, Len(d))))

\* x * 2^n
ShiftLeft(x, n) ==
    IF x = <<>> THEN <<>>
    ELSE MulAdd(x, 2^(n % LimbBits), 0) \o Zeros(n \div LimbBits)

\* the bits of x, most significant first, no leading zero
IntBits(x) ==
    StripLeadingZeros(
        [i \in 1..(LimbBits * Len(x)) |->
            (x[(i - 1) \div LimbBits + 1] \div 2^(LimbBits - 1 - ((i - 1) % LimbBits))) % 2])

\* m + 1 for a sequence of bits that are not all ones
IncBits(m) ==
    LET k == CHOOSE i \in 1..Len(m) : m[i] = 0 /\ \A j \in (i + 1)..Len(m) : m[j] = 1
    IN  [i \in 1..Len(m) |-> IF i < k THEN m[i] ELSE IF i = k THEN 1 ELSE 0]

\* round-half-even of m * 2^q given the next bit and whether anything follows it
RoundBits(neg, m, q, round, sticky) ==
    LET up   == round = 1 /\ (sticky \/ m[Len(m)] = 1)
        ones == \A i \in 1..Len(m) : m[i] = 1
        m1   == IF ~up THEN m
                ELSE IF ones THEN <<1>> \o Zeros(Len(m) - 1) ELSE <<>> \o IncBits(m)
        q1   == IF up /\ ones THEN q + 1 ELSE q
    IN  IF q1 + MantissaBits - 1 > MaxExponent THEN float_inf(neg)
        ELSE [cls |-> "finite", neg |-> neg, q |-> q1, m |-> m1]

\* the double nearest to (B + f) * 2^e, B being the bits of an integer without
\* leading zero, f a fraction below one, and rest whether f is not zero; when
\* rest holds, B reaches below the last bit of the result.  RoundKept rounds
\* to the exponent q, which keeps the first keep bits of B.
RoundKept(neg, B, q, keep, rest) ==
    LET L    == Len(B)
        kept == IF keep >= L THEN B \o Zeros(keep - L)
                ELSE IF keep > 0 THEN SubSeq(B, 1, keep) ELSE <<>>
        round  == IF keep >= 0 /\ keep < L THEN B[keep + 1] ELSE 0
        sticky == rest \/ (keep < L /\ \E i \in 1..L : i > keep + 1 /\ B[i] = 1)
    IN  RoundBits(neg, Zeros(MantissaBits - Len(kept)) \o kept, q, round, sticky)

RoundScaled(neg, B, e, rest) ==
    LET qn == e + Len(B) - MantissaBits
        \* the exponent of the result: not below that of the subnormals
        q  == IF qn < MinExponent THEN MinExponent ELSE qn
    IN  IF B = <<>> /\ ~rest THEN float_zero(neg)
        \* the result keeps the bits of B of weight 2^q or more
        ELSE RoundKept(neg, B, q, Len(B) - (q - e), rest)

\* the double nearest to (whole + f) * 2^-s, whole being num \div 10^nf and f
\* the fraction the division leaves
RoundWhole(neg, num, whole, nf, s) ==
    RoundScaled(neg, IntBits(whole), 0 - s, MulPow10(whole, nf) /= num)

\* the double nearest to num / 10^nf * 2^-s
RoundQuotient(neg, num, nf, s) == RoundWhole(neg, num, DivPow10(num, nf), nf, s)

\* the double nearest to 0.D * 10^dexp, D being decimal digits that neither
\* start nor end with a zero: the value is scaled by the power of two 2^s that
\* leaves MantissaBits + 1 bits or more in its integer part (fewer for a
\* subnormal), and those bits are rounded
NearestDouble(neg, D, dexp) ==
    LET \* a lower bound of log2 of the value
        lb  == IF dexp >= 1 THEN ((dexp - 1) * Log2Of10Low) \div 1000
               ELSE 0 - (((1 - dexp) * Log2Of10High + 999) \div 1000)
        s0  == MantissaBits - lb
        \* the number of fraction digits of D
        nf  == IF dexp >= Len(D) THEN 0 ELSE Len(D) - dexp
        s   == IF s0 < 0 THEN 0
               ELSE IF s0 > 1 - MinExponent THEN 1 - MinExponent ELSE s0
    IN  RoundQuotient(neg,
                      ShiftLeft(MulPow10(FromDigits(<<>>, D),
                                         IF nf = 0 THEN dexp - Len(D) ELSE 0), s),
                      nf, s)

\* the value of at most LimbBits bits
RECURSIVE BitsNat(_)
BitsNat(b) == IF b = <<>> THEN 0 ELSE 2 * BitsNat(SubSeq(b, 1, Len(b) - 1)) + b[Len(b)]

\* the integer whose bits are b
BitsToLimbs(b) ==
    LET n == (Len(b) + LimbBits - 1) \div LimbBits
        p == Zeros(n * LimbBits - Len(b)) \o b
    IN  StripLeadingZeros([j \in 1..n |-> BitsNat(SubSeq(p, (j - 1) * LimbBits + 1, j * LimbBits))])

\* the limbs of x + y + c with the carry in front, x and y being as long
RECURSIVE AddCarry(_, _, _)
AddCarry(x, y, c) ==
    IF x = <<>> THEN <<c>>
    ELSE IF Len(x) = 1 THEN <<(x[1] + y[1] + c) \div Base, (x[1] + y[1] + c) % Base>>
    ELSE LET h == Len(x) \div 2
         IN  Then(AddCarry(SubSeq(x, h + 1, Len(x)), SubSeq(y, h + 1, Len(y)), c),
                  LAMBDA low : AddCarry(SubSeq(x, 1, h), SubSeq(y, 1, h), Head(low))
                               \o Tail(low))

\* x with leading zero limbs up to n limbs
PadLimbs(x, n) == Zeros(n - Len(x)) \o x

BigAdd(x, y) ==
    LET n == IF Len(x) > Len(y) THEN Len(x) ELSE Len(y)
    IN  StripLeadingZeros(AddCarry(PadLimbs(x, n), PadLimbs(y, n), 0))

BigLess(x, y) ==
    \/ Len(x) < Len(y)
    \/ Len(x) = Len(y) /\ \E i \in 1..Len(x) : x[i] < y[i] /\ \A j \in 1..(i - 1) : x[j] = y[j]

\* x - y for x >= y: x plus the complement of y plus one, less Base^Len(x)
BigSub(x, y) ==
    LET yp == PadLimbs(y, Len(x))
    IN  StripLeadingZeros(Tail(AddCarry(x, [i \in 1..Len(x) |-> Base - 1 - yp[i]], 1)))

\* c.lower() of an ASCII character
Lower(c) ==
    CASE c = "A" -> "a" [] c = "B" -> "b" [] c = "C" -> "c" [] c = "D" -> "d"
      [] c = "E" -> "e" [] c = "F" -> "f" [] c = "G" -> "g" [] c = "H" -> "h"
      [] c = "I" -> "i" [] c = "J" -> "j" [] c = "K" -> "k" [] c = "L" -> "l"
      [] c = "M" -> "m" [] c = "N" -> "n" [] c = "O" -> "o" [] c = "P" -> "p"
      [] c = "Q" -> "q" [] c = "R" -> "r" [] c = "S" -> "s" [] c = "T" -> "t"
      [] c = "U" -> "u" [] c = "V" -> "v" [] c = "W" -> "w" [] c = "X" -> "x"
      [] c = "Y" -> "y" [] c = "Z" -> "z" [] OTHER -> c

lower(s) == [i \in 1..Len(s) |-> Lower(s[i])]

\* every underscore stands between two digits
UnderscoresOk(s) ==
    \A i \in 1..Len(s) :
        s[i] = "_" => /\ i > 1 /\ s[i - 1] \in Digits
                      /\ i < Len(s) /\ s[i + 1] \in Digits

OnlyDigits(s) == \A i \in 1..Len(s) : s[i] \in Digits

\* a literal taken apart: its sign, its body (the rest in lower case), the
\* pieces me of the body around 'e', the mantissa split at the point, and the
\* exponent
literal_pieces(neg, body, me) ==
    [neg  |-> neg,
     body |-> body,
     pieces |-> Len(me),
     mant |-> str_split(me[1], "."),
     ex   |-> IF Len(me) >= 2 THEN me[2] ELSE <<"0">>]

literal_body(neg, body) == literal_pieces(neg, body, str_split(body, "e"))

literal_parts(u) == literal_body(u /= <<>> /\ Head(u) = "-", lower(unsigned(u)))

\* the literal of float(s), surrounding whitespace and underscores removed
float_parts(s) == literal_parts(no_underscores(strip(s)))

float_word(body) ==
    IF body \in {<<"i", "n", "f">>, <<"i", "n", "f", "i", "n", "i", "t", "y">>}
    THEN "inf"
    ELSE IF body = <<"n", "a", "n">> THEN "nan" ELSE ""

\* a mantissa of digits with at most one point, and an exponent of digits
digits_ok(p) ==
    /\ p.pieces <= 2 /\ Len(p.mant) <= 2
    /\ \A i \in 1..Len(p.mant) : OnlyDigits(p.mant[i])
    /\ \E i \in 1..Len(p.mant) : p.mant[i] /= <<>>
    /\ AllDigits(unsigned(p.ex))

parts_ok(p) == float_word(p.body) /= "" \/ digits_ok(p)

\* float(s) of an ASCII string; float_ok(s) false stands for ValueError
float_ok(s) == UnderscoresOk(strip(s)) /\ parts_ok(float_parts(s))

DigitSeq(s) == [i \in 1..Len(s) |-> DigitVal(s[i])]

\* the bits of a natural number, most significant first
RECURSIVE NatBits(_)
NatBits(n) == IF n = 0 THEN <<>> ELSE NatBits(n \div 2) \o <<n % 2>>

\* a natural number as an integer of any size, and back
BigNat(n) == BitsToLimbs(NatBits(n))
NatOfBig(x) == BitsNat(IntBits(x))

\* the magnitude of the exponent of a literal, an integer of any size
exponent_val(ex) == FromDigits(<<>>, DigitSeq(unsigned(ex)))

\* up - down for two integers of any size, as far as it matters: a
\* difference above MaxDecimalExponent is MaxDecimalExponent + 1, and one
\* below MinDecimalExponent is MinDecimalExponent - 1
bounded_difference(up, down) ==
    IF BigLess(down, up)
    THEN IF BigLess(BigNat(MaxDecimalExponent), BigSub(up, down))
         THEN MaxDecimalExponent + 1
         ELSE NatOfBig(BigSub(up, down))
    ELSE IF BigLess(BigNat(0 - MinDecimalExponent), BigSub(down, up))
         THEN MinDecimalExponent - 1
         ELSE 0 - NatOfBig(BigSub(down, up))

\* k plus the exponent ex of a literal, as far as it matters
decimal_exponent(k, ex) ==
    bounded_difference(
        BigAdd(BigNat(IF k > 0 THEN k ELSE 0),
               IF Head(ex) = "-" THEN <<>> ELSE exponent_val(ex)),
        BigAdd(BigNat(IF k < 0 THEN 0 - k ELSE 0),
               IF Head(ex) = "-" THEN exponent_val(ex) ELSE <<>>))

\* the double nearest to 0.D * 10^dexp, D being digits without leading or
\* trailing zeros
decimal_val(neg, D, dexp) ==
    IF D = <<>> THEN float_zero(neg)
    ELSE IF dexp > MaxDecimalExponent THEN float_inf(neg)
    ELSE IF dexp < MinDecimalExponent THEN float_zero(neg)
    ELSE NearestDouble(neg, D, dexp)

\* lead being the digits all without their leading zeros, and nint the
\* number of digits before the point
digits_lead(neg, nint, all, lead, ex) ==
    decimal_val(neg, StripTrailingZeros(lead),
                decimal_exponent(nint - (Len(all) - Len(lead)), ex))

\* the double of the digits int before the point and frac after it, times
\* ten to the power of the exponent ex of the literal
digits_val(neg, int, frac, ex) ==
    digits_lead(neg, Len(int), int \o frac, StripLeadingZeros(int \o frac), ex)

parts_val(p) ==
    IF float_word(p.body) = "inf" THEN float_inf(p.neg)
    ELSE IF float_word(p.body) = "nan" THEN float_nan
    ELSE digits_val(p.neg, DigitSeq(p.mant[1]),
                    IF Len(p.mant) = 2 THEN DigitSeq(p.mant[2]) ELSE <<>>,
                    p.ex)

float_val(s) == parts_val(float_parts(s))

\* float(n) of an integer below 2^53
float_of_int(n) ==
    LET a == IF n < 0 THEN 0 - n ELSE n
        B == NatBits(a)
    IN  IF n = 0 THEN float_zero(FALSE)
        ELSE [cls |-> "finite", neg |-> n < 0, q |-> Len(B) - MantissaBits,
              m |-> B \o Zeros(MantissaBits - Len(B))]

\* x < y for two sequences of bits of the same length
BitsLess(x, y) ==
    \E i \in 1..Len(x) : x[i] < y[i] /\ \A j \in 1..(i - 1) : x[j] = y[j]

\* |a| < |b| for two doubles that are not NaN
MagnitudeLess(a, b) ==
    IF a.cls = "inf" THEN FALSE
    ELSE IF b.cls = "inf" THEN TRUE
    ELSE a.q < b.q \/ (a.q = b.q /\ BitsLess(a.m, b.m))

float_is_zero(a) == a.cls = "finite" /\ AllZero(a.m)

\* a < b, a >= b, a <= b of two floats
float_lt(a, b) ==
    /\ a.cls /= "nan" /\ b.cls /= "nan"
    /\ ~(float_is_zero(a) /\ float_is_zero(b))
    /\ IF a.neg /= b.neg THEN a.neg
       ELSE IF a.neg THEN MagnitudeLess(b, a) ELSE MagnitudeLess(a, b)

float_ge(a, b) == a.cls /= "nan" /\ b.cls /= "nan" /\ ~float_lt(a, b)
float_le(a, b) == float_ge(b, a)

----------------------------------------------------------------------------
(* compare_vcf.py: normalize_chrom *)

ChrPrefix == <<"c", "h", "r">>

normalize_chrom(chrom) == str_replace(chrom, ChrPrefix, <<>>)

----------------------------------------------------------------------------
(* Exact fractions standing for the Python floats of the metric code *)

RECURSIVE GCD(_, _)
GCD(a, b) == IF b = 0 THEN a ELSE GCD(b, a % b)

\* n / d for n >= 0, d > 0, reduced
Frac(n, d) == LET g == GCD(n, d) IN <<n \div g, d \div g>>

Zero == <<0, 1>>
RatAdd(p, q) == Frac(p[1] * q[2] + q[1] * p[2], p[2] * q[2])
RatMul(p, q) == Frac(p[1] * q[1], p[2] * q[2])
\* p / q for q > 0
RatDiv(p, q) == Frac(p[1] * q[2], p[2] * q[1])
RatPos(p) == p[1] > 0

----------------------------------------------------------------------------
(* compare_vcf.py: compare_variants, calculate_metrics *)

compare_variants_fp_all(truth_variants_, query_variants_) ==
    [tp |-> truth_variants_ \cap query_variants_,
     fp |-> query_variants_,
     fn |-> truth_variants_ \ query_variants_]

compare_variants(truth_variants_, query_variants_) ==
    [tp |-> truth_variants_ \cap query_variants_,
     fp |-> query_variants_ \ truth_variants_,
     fn |-> truth_variants_ \ query_variants_]

calculate_metrics_recall_fp(tp_count, fp_count, fn_count) ==
    LET precision == IF (tp_count + fp_count) > 0
                     THEN Frac(tp_count, tp_count + fp_count) ELSE Zero
        recall    == IF (tp_count + fp_count) > 0
                     THEN Frac(tp_count, tp_count + fp_count) ELSE Zero
        f1        == IF RatPos(RatAdd(precision, recall))
                     THEN RatDiv(RatMul(<<2, 1>>, RatMul(precision, recall)),
                                 RatAdd(precision, recall))
                     ELSE Zero
    IN  [precision |-> precision, recall |-> recall, f1 |-> f1]

calculate_metrics(tp_count, fp_count, fn_count) ==
    LET precision == IF (tp_count + fp_count) > 0
                     THEN Frac(tp_count, tp_count + fp_count) ELSE Zero
        recall    == IF (tp_count + fn_count) > 0
                     THEN Frac(tp_count, tp_count + fn_count) ELSE Zero
        f1        == IF RatPos(RatAdd(precision, recall))
                     THEN RatDiv(RatMul(<<2, 1>>, RatMul(precision, recall)),
                                 RatAdd(precision, recall))
                     ELSE Zero
    IN  [precision |-> precision, recall |-> recall, f1 |-> f1]

----------------------------------------------------------------------------
(* Input files.  Each script sees a file through the reader it opens it     *)
(* with, and a file is held as what that reader hands to the script.  For   *)
(* compare_vcf.py and debug/vis.py that is the lines `for line in f`        *)
(* yields, each a str with its line ending, and the exception raised by the *)
(* opening of the file or by the read after the last of these lines ("none" *)
(* when the file ends there).                                               *)

None == "None"

chr17 == <<"c", "h", "r", "1", "7">>
n17   == <<"1", "7">>
P7000000 == <<"7", "0", "0", "0", "0", "0", "0">>
P4999999 == <<"4", "9", "9", "9", "9", "9", "9">>
Pbad     == <<"7", "x">>
FormatQuery == Chars("GT:GQ:DP:AD:VAF:PL")
FormatTruth == Chars("AD:DP:AF")
SampleQuery == Chars("1:9:9:9:0.50:0")
SampleQueryLow == Chars("1:9:9:9:0.10:0")
SampleTruth == Chars("9:9:0.50")
SampleTruthLow == Chars("9:9:0.10")
\* the normal sample of the ground truth
SampleNormal == Chars("9:9:0")

\* FILTER labels
Dot == <<".">>
PASS == <<"P", "A", "S", "S">>
RefCall == <<"R", "e", "f", "C", "a", "l", "l">>
GERMLINE == <<"G", "E", "R", "M", "L", "I", "N", "E">>

\* the values of one data line of a VCF that the scripts look at
Call(chrom, pos, ref, alt, filter, format, sample) ==
    [chrom |-> chrom, pos |-> pos, ref |-> ref, alt |-> alt, filter |-> filter,
     format |-> format, sample |-> sample]

\* calls of the DeepSomatic output
QAG       == Call(chr17, P7000000, <<"A">>, <<"G">>, PASS, FormatQuery, SampleQuery)
QAGLow    == Call(chr17, P7000000, <<"A">>, <<"G">>, PASS, FormatQuery, SampleQueryLow)
QNoChr    == Call(n17, P7000000, <<"A">>, <<"G">>, PASS, FormatQuery, SampleQuery)
QMulti    == Call(chr17, P7000000, <<"A">>, <<"G", ",", "T">>, PASS, FormatQuery, SampleQuery)
QBadPos   == Call(chr17, Pbad, <<"A">>, <<"G">>, PASS, FormatQuery, SampleQuery)
QOutOfRegion == Call(chr17, P4999999, <<"C">>, <<"T">>, PASS, FormatQuery, SampleQuery)
QGermline == Call(chr17, P7000000, <<"C">>, <<"T">>, GERMLINE, FormatQuery, SampleQuery)
QNoAlt    == Call(chr17, P7000000, <<"A">>, Dot, Dot, FormatQuery, SampleQuery)

\* calls of the ground truth
TAG       == Call(chr17, P7000000, <<"A">>, <<"G">>, PASS, FormatTruth, SampleTruth)
TAGLow    == Call(chr17, P7000000, <<"A">>, <<"G">>, PASS, FormatTruth, SampleTruthLow)
TNoChr    == Call(n17, P7000000, <<"A">>, <<"G">>, PASS, FormatTruth, SampleTruth)
TMulti    == Call(chr17, P7000000, <<"A">>, <<"G", ",", "T">>, PASS, FormatTruth, SampleTruth)
TBadPos   == Call(chr17, Pbad, <<"A">>, <<"G">>, PASS, FormatTruth, SampleTruth)
TOutOfRegion == Call(chr17, P4999999, <<"C">>, <<"T">>, PASS, FormatTruth, SampleTruth)
TGermline == Call(chr17, P7000000, <<"C">>, <<"T">>, GERMLINE, FormatTruth, SampleTruth)
TruthOnly == Call(chr17, P7000000, <<"G">>, <<"A">>, PASS, FormatTruth, SampleTruth)

\* sample columns that do not follow the caller's usual layout
FormatReordered == Chars("GT:VAF:DP:AD:GQ:PL")
FormatNoVAF == Chars("GT:GQ:DP:AD:PL")
QReordered == Call(chr17, P7000000, <<"A">>, <<"G">>, PASS, FormatReordered,
                   Chars("1:0.50:9:9:9:0"))
\* the trailing components dropped
QShort     == Call(chr17, P7000000, <<"A">>, <<"G">>, PASS, FormatQuery, Chars("1:9"))
\* the allele fraction missing
QNoNumber  == Call(chr17, P7000000, <<"C">>, <<"T">>, PASS, FormatQuery,
                   Chars("1:9:9:9:.:0"))
\* the layout of the ground truth in the output
QTruthLayout == Call(chr17, P7000000, <<"A">>, <<"G">>, PASS, FormatTruth, SampleTruth)
QNoVAF     == Call(chr17, P7000000, <<"C">>, <<"T">>, PASS, FormatNoVAF,
                   Chars("1:9:9:9:0.50"))

\* the text of a line that has the given fields
TextLine(fields) == str_join(fields, <<"\t">>) \o <<"\n">>

\* the data line of a call in the DeepSomatic output, which has one sample
\* column, and in the ground truth, which has two
QueryLine(v) ==
    TextLine(<<v.chrom, v.pos, Dot, v.ref, v.alt, Dot, v.filter, Dot, v.format, v.sample>>)

TruthLine(v) ==
    TextLine(<<v.chrom, v.pos, Dot, v.ref, v.alt, Dot, v.filter, Dot, v.format,
               SampleNormal, v.sample>>)

BlankLine == <<"\n">>
HeaderLine ==
    TextLine(<<Chars("#CHROM"), Chars("POS"), Chars("ID"), Chars("REF"), Chars("ALT"),
               Chars("QUAL"), Chars("FILTER"), Chars("INFO"), Chars("FORMAT"),
               Chars("TUMOR")>>)

TruthLines == {TruthLine(v) : v \in {TAG, TNoChr, TMulti, TBadPos}} \cup {BlankLine, HeaderLine}
QueryLines == {QueryLine(v) : v \in {QAG, QNoChr, QMulti, QBadPos}} \cup {BlankLine, HeaderLine}

Range(s) == {s[i] : i \in 1..Len(s)}

SeqsUpTo(S, n) == UNION {[1..k -> S] : k \in 0..n}

\* the files that hold at most n of the lines L, and one that cannot be read
TextFiles(L, n) ==
    {[lines |-> s, raises |-> "none"] : s \in SeqsUpTo(L, n)}
        \cup {[lines |-> <<>>, raises |-> "UnicodeDecodeError"]}

\* every pair of files with at most MaxLines lines in total
TextFilePairs ==
    {p \in TextFiles(TruthLines, MaxLines) \X TextFiles(QueryLines, MaxLines) :
        Len(p[1].lines) + Len(p[2].lines) <= MaxLines}

----------------------------------------------------------------------------
(* compare_vcf.py: parse_vcf *)

\* the body of the loop for the fields of one data line: the keys it adds
parse_vcf_line(fields) ==
    {<<normalize_chrom(fields[1]), int_val(fields[2]), fields[4], alt_allele>> :
        alt_allele \in Range(str_split(fields[5], ","))}

\* lines i.. of the file, variants being the set built so far;
\* int() of a non-integer POS raises ValueError out of parse_vcf
RECURSIVE parse_vcf_from(_, _, _)

\* fields = line.strip().split('\t') and what follows it
parse_vcf_fields(f, i, variants, fields) ==
    IF Len(fields) < 5 THEN parse_vcf_from(f, i + 1, variants)
    ELSE IF ~int_ok(fields[2]) THEN [err |-> "ValueError", variants |-> variants]
    ELSE parse_vcf_from(f, i + 1, variants \cup parse_vcf_line(fields))

\* for line in f: a read that fails ends the loop with its exception
parse_vcf_from(f, i, variants) ==
    IF i > Len(f.lines) THEN [err |-> f.raises, variants |-> variants]
    ELSE IF startswith(f.lines[i], <<"#">>) THEN parse_vcf_from(f, i + 1, variants)
    ELSE parse_vcf_fields(f, i, variants, str_split(str_strip(f.lines[i]), "\t"))

parse_vcf(f) == parse_vcf_from(f, 1, {})

----------------------------------------------------------------------------
(* compare_vcf.py: main *)

\* truth_variants = parse_vcf(args.truth)
CV_LoadTruth ==
    /\ prog = "compare_vcf" /\ pc = "load_truth"
    /\ \E r \in {parse_vcf(truth_file)} :
           IF r.err = "none"
           THEN truth_variants' = r.variants /\ pc' = "load_query" /\ err' = err
           ELSE truth_variants' = truth_variants /\ pc' = "failed_load_truth" /\ err' = r.err
    /\ UNCHANGED <<prog, truth_file, query_file, query_variants, result, counts,
                   metrics, label, normed>>

\* query_variants = parse_vcf(args.query)
CV_LoadQuery ==
    /\ prog = "compare_vcf" /\ pc = "load_query"
    /\ \E r \in {parse_vcf(query_file)} :
           IF r.err = "none"
           THEN query_variants' = r.variants /\ pc' = "compare" /\ err' = err
           ELSE query_variants' = query_variants /\ pc' = "failed_load_query" /\ err' = r.err
    /\ UNCHANGED <<prog, truth_file, query_file, truth_variants, result, counts,
                   metrics, label, normed>>

\* tp, fp, fn = compare_variants(...); tp_count = len(tp); ...
CV_Compare ==
    /\ prog = "compare_vcf" /\ pc = "compare"
    /\ result' = compare_variants(truth_variants, query_variants)
    /\ counts' = [tp |-> Cardinality(result'.tp), fp |-> Cardinality(result'.fp),
                  fn |-> Cardinality(result'.fn)]
    /\ pc' = "metrics"
    /\ UNCHANGED <<prog, err, truth_file, query_file, truth_variants, query_variants,
                   metrics, label, normed>>

\* precision, recall, f1 = calculate_metrics(tp_count, fp_count, fn_count)
CV_Metrics ==
    /\ prog = "compare_vcf" /\ pc = "metrics"
    /\ metrics' = calculate_metrics(counts.tp, counts.fp, counts.fn)
    /\ pc' = "done"
    /\ UNCHANGED <<prog, err, truth_file, query_file, truth_variants, query_variants,
                   result, counts, label, normed>>

----------------------------------------------------------------------------
(* somatic_analysis.py.  The script reads its files with pd.read_csv, and a *)
(* file is held as what read_vcf hands back: the DataFrame, or the          *)
(* exception that read_csv or the opening of the file raises.  A DataFrame  *)
(* is the dtype of each of its columns and the sequence of its rows, a row  *)
(* giving the cell of each column; the names of the columns are those of    *)
(* the file's header line, which read_csv keeps distinct.  The merges are   *)
(* those of pandas 2.                                                       *)

MIN_REGION == 5000000
MAX_REGION == 8000000
CHROMOSOMES == {chr17}
\* 0.15
VAF_THRESHOLD == float_val(<<"0", ".", "1", "5">>)

\* str(n) of an int
DigitChars == <<"0", "1", "2", "3", "4", "5", "6", "7", "8", "9">>

RECURSIVE nat_str(_)
nat_str(n) ==
    IF n < 10 THEN <<DigitChars[n + 1]>> ELSE nat_str(n \div 10) \o <<DigitChars[(n % 10) + 1]>>

\* A cell is its Python value: an int, a float or a bool in a column of that
\* dtype, and any of these or a str in an object column (read_csv infers the
\* dtype of a long file piece by piece, and a column that is numeric in one
\* piece and text in another is an object column of numbers and strs); a
\* missing value is the float NaN.  An int is held as its decimal text and
\* the float nearest to it, a bool as the float equal to it.
IntCell(text) == [kind |-> "int", num |-> float_val(text), str |-> text]
FloatCell(x) == [kind |-> "float", num |-> x, str |-> <<>>]
BoolCell(b) == [kind |-> "bool", num |-> float_of_int(IF b THEN 1 ELSE 0), str |-> <<>>]
StrCell(s) == [kind |-> "str", num |-> float_nan, str |-> s]
NaNCell == FloatCell(float_nan)

Columns(df) == DOMAIN df.dtypes

\* df[c]: the cells of column c
column(df, c) == [i \in 1..Len(df.rows) |-> df.rows[i][c]]

\* df[df[c] != label]: a cell that is not a str differs from the label
rows_ne(df, c, lbl) ==
    [df EXCEPT !.rows = SelectSeq(df.rows, LAMBDA r : ~(r[c].kind = "str" /\ r[c].str = lbl))]

\* df['FILTER'] of a table without that column raises KeyError
fix_output_vcf_err(df) == IF "FILTER" \notin Columns(df) THEN "KeyError" ELSE "none"

fix_output_vcf(df) == rows_ne(rows_ne(df, "FILTER", RefCall), "FILTER", GERMLINE)

\* df['POS'] and df['#CHROM'] of a table without the column raise KeyError;
\* comparing a str of the POS column with MIN_REGION raises TypeError
fix_ground_truth_vcf_err(df) ==
    IF "POS" \notin Columns(df) THEN "KeyError"
    ELSE IF \E i \in 1..Len(df.rows) : df.rows[i]["POS"].kind = "str" THEN "TypeError"
    ELSE IF "#CHROM" \notin Columns(df) THEN "KeyError"
    ELSE "none"

\* cell >= n and cell <= n for a cell that is not a str
cell_ge(cell, n) == float_ge(cell.num, float_of_int(n))
cell_le(cell, n) == float_le(cell.num, float_of_int(n))

fix_ground_truth_vcf(df) ==
    [df EXCEPT !.rows =
        SelectSeq(SelectSeq(df.rows, LAMBDA r : cell_ge(r["POS"], MIN_REGION)
                                                 /\ cell_le(r["POS"], MAX_REGION)),
                  LAMBDA r : r["#CHROM"].kind = "str" /\ r["#CHROM"].str \in CHROMOSOMES)]

\* the value of a key cell as the merge compares it: NaN matches NaN, and
\* ints, floats and bools match by their number
KeyCell(cell) ==
    IF cell.kind = "str" THEN [kind |-> "str", num |-> float_nan, str |-> cell.str]
    ELSE IF cell.num.cls = "nan" THEN [kind |-> "nan", num |-> float_nan, str |-> <<>>]
    ELSE [kind |-> "num", str |-> <<>>,
          num |-> IF float_is_zero(cell.num) THEN float_zero(FALSE) ELSE cell.num]

RowKey(r) == <<KeyCell(r["#CHROM"]), KeyCell(r["POS"]), KeyCell(r["REF"]), KeyCell(r["ALT"])>>

\* the columns of the right table in a row the left table alone has
NaNRow(df) == [c \in Columns(df) |-> NaNCell]

RECURSIVE FlattenSeq(_)
FlattenSeq(ss) == IF ss = <<>> THEN <<>> ELSE Head(ss) \o FlattenSeq(Tail(ss))

\* the first exception of a sequence of outcomes, or "none"
FirstErr(errs) ==
    IF \A i \in 1..Len(errs) : errs[i] = "none" THEN "none"
    ELSE errs[CHOOSE i \in 1..Len(errs) :
                /\ errs[i] /= "none"
                /\ \A j \in 1..(i - 1) : errs[j] = "none"]

KeyColumns == <<"#CHROM", "POS", "REF", "ALT">>

\* pd.notnull(x)
notnull(x) == ~(x.kind = "float" /\ x.num.cls = "nan")

\* every cell is of one of the kinds
all_kinds(cells, kinds) == \A i \in 1..Len(cells) : cells[i].kind \in kinds

\* the first cell that is not NaN, and the last cell when every cell is NaN
first_valid(cells) ==
    IF \A i \in 1..Len(cells) : ~notnull(cells[i]) THEN cells[Len(cells)]
    ELSE cells[CHOOSE i \in 1..Len(cells) :
                  notnull(cells[i]) /\ \A j \in 1..(i - 1) : ~notnull(cells[j])]

\* ints and floats together: the floats are all NaN, or not
infer_integer_float(cells) ==
    IF \A i \in 1..Len(cells) : cells[i].kind = "int" \/ ~notnull(cells[i])
    THEN "integer-na" ELSE "mixed-integer-float"

\* a column that is not of the type of its first valid value
infer_mixed(cells) ==
    IF \E i \in 1..Len(cells) : cells[i].kind = "int" THEN "mixed-integer" ELSE "mixed"

\* lib.infer_dtype of an object column that has cells, val being its first
\* valid value
infer_object(cells, val) ==
    CASE val.kind = "int" ->
            IF all_kinds(cells, {"int"}) THEN "integer"
            ELSE IF all_kinds(cells, {"int", "float"}) THEN infer_integer_float(cells)
            ELSE "mixed-integer"
      [] val.kind = "float" ->
            IF all_kinds(cells, {"float"}) THEN "floating"
            ELSE IF all_kinds(cells, {"int", "float"}) THEN infer_integer_float(cells)
            ELSE infer_mixed(cells)
      [] val.kind = "bool" ->
            IF all_kinds(cells, {"bool"}) THEN "boolean" ELSE infer_mixed(cells)
      [] val.kind = "str" ->
            IF all_kinds(cells, {"str"}) THEN "string" ELSE infer_mixed(cells)

\* lib.infer_dtype(column, skipna=False)
infer_dtype(dtype, cells) ==
    CASE dtype \in {"int64", "uint64"} -> "integer"
      [] dtype = "float64" -> "floating"
      [] dtype = "bool" -> "boolean"
      [] dtype = "object" ->
            IF cells = <<>> THEN "empty" ELSE infer_object(cells, first_valid(cells))

BoolTypes == {"integer", "mixed-integer", "boolean", "empty"}
StringTypes == {"string", "unicode", "mixed", "bytes", "empty"}

\* pd.merge checks each key column of the two tables: an object column of
\* strings does not merge with a column of numbers, one of ints, or of ints
\* and strs, does
merge_key_err(ldtype, lcells, rdtype, rcells) ==
    LET left  == infer_dtype(ldtype, lcells)
        right == infer_dtype(rdtype, rcells)
    IN  IF (lcells = <<>>) /= (rcells = <<>>) THEN "none"
        ELSE IF ldtype = rdtype THEN "none"
        ELSE IF ldtype /= "object" /\ rdtype /= "object" THEN "none"
        ELSE IF "bool" \in {ldtype, rdtype} THEN "none"
        ELSE IF left \in BoolTypes /\ right \in BoolTypes THEN "none"
        ELSE IF (left \in StringTypes) /= (right \in StringTypes) THEN "ValueError"
        ELSE "none"

\* the columns the two tables share beside the keys: the merge gives the
\* left one the suffix _x and the right one the suffix _y
overlap(ldf, rdf) == (Columns(ldf) \cap Columns(rdf)) \ Range(KeyColumns)

\* the label the merge gives column c of a table
merged_label(c, shared, suffix) == IF c \in shared THEN c \o suffix ELSE c

\* two columns of one table that the suffixes give the same label
suffix_err(ldf, rdf) ==
    IF \/ \E c, d \in Columns(ldf) :
            /\ c /= d
            /\ merged_label(c, overlap(ldf, rdf), "_x") = merged_label(d, overlap(ldf, rdf), "_x")
       \/ \E c, d \in Columns(rdf) \ Range(KeyColumns) :
            /\ c /= d
            /\ merged_label(c, overlap(ldf, rdf), "_y") = merged_label(d, overlap(ldf, rdf), "_y")
    THEN "MergeError" ELSE "none"

\* indicator=True refuses a table that has a column of the indicator's names
indicator_err(ldf, rdf) ==
    IF {"_merge", "_left_indicator", "_right_indicator"} \cap (Columns(ldf) \cup Columns(rdf)) /= {}
    THEN "ValueError" ELSE "none"

\* pd.merge(ldf, rdf, on=[#CHROM, POS, REF, ALT], ...): a key column that a
\* table lacks raises KeyError; then the dtypes of the keys are checked, then
\* the indicator, then the labels of the result
merge_err(ldf, rdf, indicator) ==
    IF ~(Range(KeyColumns) \subseteq Columns(ldf) \cap Columns(rdf)) THEN "KeyError"
    ELSE IF FirstErr([k \in 1..Len(KeyColumns) |->
                merge_key_err(ldf.dtypes[KeyColumns[k]], column(ldf, KeyColumns[k]),
                              rdf.dtypes[KeyColumns[k]], column(rdf, KeyColumns[k]))]) /= "none"
         THEN "ValueError"
    ELSE IF indicator /\ indicator_err(ldf, rdf) /= "none" THEN indicator_err(ldf, rdf)
    ELSE suffix_err(ldf, rdf)

\* the key columns whose values the merge compares as they are (ints as
\* ints): all but those of two different dtypes of numbers, which are
\* compared as float64
exact_keys(ldf, rdf) ==
    {c \in Range(KeyColumns) :
        ~(/\ ldf.dtypes[c] /= rdf.dtypes[c]
          /\ {ldf.dtypes[c], rdf.dtypes[c]} \subseteq {"int64", "uint64", "float64"})}

\* B are the bits of an integer that is a float: below 2^(MaxExponent + 1),
\* with no more than MantissaBits bits from its first one to its last one
bits_are_float(B) ==
    Len(B) <= MaxExponent + 1 /\ Len(StripTrailingZeros(B)) <= MantissaBits

\* the int of the decimal text equals a float
int_is_float(text) == bits_are_float(IntBits(FromDigits(<<>>, DigitSeq(unsigned(text)))))

\* an int that no float equals matches the same int only
merge_cell(cell, exact) ==
    IF exact /\ cell.kind = "int" /\ ~int_is_float(cell.str)
    THEN [kind |-> "int", num |-> float_nan, str |-> cell.str]
    ELSE KeyCell(cell)

merge_key(r, exact) ==
    <<merge_cell(r["#CHROM"], "#CHROM" \in exact), merge_cell(r["POS"], "POS" \in exact),
      merge_cell(r["REF"], "REF" \in exact), merge_cell(r["ALT"], "ALT" \in exact)>>

\* pd.merge(left, right, on=[#CHROM, POS, REF, ALT], how='inner'): one row for
\* every pair of a left row and a right row with equal keys; x holds the
\* cells of the left row, y those of the right row
merge_inner(ldf, rdf, exact) ==
    FlattenSeq([i \in 1..Len(ldf.rows) |->
        LET m == SelectSeq(rdf.rows,
                           LAMBDA r : merge_key(r, exact) = merge_key(ldf.rows[i], exact))
        IN  [j \in 1..Len(m) |-> [x |-> ldf.rows[i], y |-> m[j]]]])

\* pd.merge(left, right, ..., how='left', indicator=True).query("_merge == 'left_only'")
merge_left_only(ldf, rdf, exact) ==
    LET keep == SelectSeq(ldf.rows, LAMBDA l :
                    \A j \in 1..Len(rdf.rows) : merge_key(rdf.rows[j], exact) /= merge_key(l, exact))
    IN  [i \in 1..Len(keep) |-> [x |-> keep[i], y |-> NaNRow(rdf)]]

\* the columns of pd.merge(ldf, rdf) that bear the label name, each as the
\* side of the merged row that holds it and its name in that table
labelled(ldf, rdf, name) ==
    {[side |-> "x", col |-> c] :
        c \in {d \in Columns(ldf) : merged_label(d, overlap(ldf, rdf), "_x") = name}}
    \cup
    {[side |-> "y", col |-> c] :
        c \in {d \in Columns(rdf) \ Range(KeyColumns) :
                  merged_label(d, overlap(ldf, rdf), "_y") = name}}

\* table[name].apply(...) and the assignment of its result: a label no column
\* bears raises KeyError; under a label two columns bear, the lambda is given
\* a whole column or the result is a table, and either raises ValueError
lookup_err(cols) ==
    IF cols = {} THEN "KeyError" ELSE IF Cardinality(cols) > 1 THEN "ValueError" ELSE "none"

\* the cell of merged row m in the one column of cols
cell_of(m, cols) == m[(CHOOSE c \in cols : TRUE).side][(CHOOSE c \in cols : TRUE).col]

\* lambda x: float(str(x).split(':')[4]) if pd.notnull(x) else 0.0
\* (the str of a number or of a bool has no colon; str refuses an int of
\* more than MaxStrDigits digits)
vaf_5th_err(x) ==
    IF ~notnull(x) THEN "none"
    ELSE IF x.kind = "int" /\ Len(unsigned(x.str)) > MaxStrDigits THEN "ValueError"
    ELSE IF x.kind /= "str" THEN "IndexError"
    ELSE LET parts == str_split(x.str, ":")
         IN  IF Len(parts) < 5 THEN "IndexError"
             ELSE IF ~float_ok(parts[5]) THEN "ValueError" ELSE "none"

vaf_5th(x) == IF ~notnull(x) THEN float_zero(FALSE) ELSE float_val(str_split(x.str, ":")[5])

\* lambda x: float(str(x).split(':')[-1]) if pd.notnull(x) else 0.0
vaf_last_err(x) ==
    IF x.kind = "int" /\ Len(unsigned(x.str)) > MaxStrDigits THEN "ValueError"
    ELSE IF ~notnull(x) \/ x.kind \in {"int", "float"} THEN "none"
    ELSE IF x.kind = "bool" THEN "ValueError"
    ELSE LET parts == str_split(x.str, ":")
         IN  IF ~float_ok(parts[Len(parts)]) THEN "ValueError" ELSE "none"

vaf_last(x) ==
    IF ~notnull(x) THEN float_zero(FALSE)
    ELSE IF x.kind \in {"int", "float"} THEN x.num
    ELSE LET parts == str_split(x.str, ":") IN float_val(parts[Len(parts)])

\* the Precision / Recall / F1 Score prints of one block: the values printed,
\* None for a line the block does not reach
score_prints(tp, fn, fp) ==
    LET precision == Frac(tp, tp + fp)
        recall    == Frac(tp, tp + fn)
        nothing   == [precision |-> None, recall |-> None, f1 |-> None]
    IN  IF tp + fp = 0 THEN [err |-> "ZeroDivisionError", values |-> nothing]
        ELSE IF tp + fn = 0
             THEN [err |-> "ZeroDivisionError",
                   values |-> [nothing EXCEPT !.precision = precision]]
        ELSE IF ~RatPos(RatAdd(precision, recall))
             THEN [err |-> "ZeroDivisionError",
                   values |-> [nothing EXCEPT !.precision = precision, !.recall = recall]]
        ELSE [err |-> "none",
              values |-> [precision |-> precision, recall |-> recall,
                          f1 |-> RatDiv(RatMul(<<2, 1>>, RatMul(precision, recall)),
                                        RatAdd(precision, recall))]]

\* The outcome of deepsomatic_scores: the stage it reached (the merges, the
\* VAF_VALUE columns, the prints), the exception that ended it, the tables
\* and the values printed; None is a name never assigned or a line never
\* printed.
ScoresUnset ==
    [err |-> "none", stage |-> "merge", tp |-> None, fn |-> None, fp |-> None,
     tp_f |-> None, fn_f |-> None, fp_f |-> None,
     counts |-> None, unfiltered |-> None, filtered |-> None]

\* the two print blocks, u and f being the prints of the unfiltered and of
\* the filtered block
scores_printed(done, u, f) ==
    IF u.err /= "none" THEN [done EXCEPT !.err = u.err, !.unfiltered = u.values]
    ELSE IF f.err /= "none"
         THEN [done EXCEPT !.err = f.err, !.unfiltered = u.values, !.filtered = f.values]
         ELSE [done EXCEPT !.unfiltered = u.values, !.filtered = f.values]

scores_filtered(tp, fn, fp, tp_f, fn_f, fp_f) ==
    scores_printed([ScoresUnset EXCEPT !.stage = "prints", !.tp = tp, !.fn = fn, !.fp = fp,
                                       !.tp_f = tp_f, !.fn_f = fn_f, !.fp_f = fp_f,
                                       !.counts = [tp |-> Len(tp), fn |-> Len(fn),
                                                   fp |-> Len(fp)]],
                   score_prints(Len(tp), Len(fn), Len(fp)),
                   score_prints(Len(tp_f), Len(fn_f), Len(fp_f)))

\* tp_filtered = tp[tp['VAF_VALUE'] >= VAF_THRESHOLD], and so for fn and fp
scores_valued(tp, fn, fp) ==
    scores_filtered(tp, fn, fp,
                    SelectSeq(tp, LAMBDA m : float_ge(m.VAF_VALUE, VAF_THRESHOLD)),
                    SelectSeq(fn, LAMBDA m : float_ge(m.VAF_VALUE, VAF_THRESHOLD)),
                    SelectSeq(fp, LAMBDA m : float_ge(m.VAF_VALUE, VAF_THRESHOLD)))

\* the exception of table[name].apply(f), f being the lambda of line 124 when
\* last holds and that of lines 122 and 126 otherwise
apply_err(table, cols, last) ==
    IF lookup_err(cols) /= "none" THEN lookup_err(cols)
    ELSE FirstErr([i \in 1..Len(table) |->
                      IF last THEN vaf_last_err(cell_of(table[i], cols))
                      ELSE vaf_5th_err(cell_of(table[i], cols))])

\* table['VAF_VALUE'] = table[name].apply(f)
with_vaf(table, cols, last) ==
    [i \in 1..Len(table) |->
        [x |-> table[i].x, y |-> table[i].y,
         VAF_VALUE |-> IF last THEN vaf_last(cell_of(table[i], cols))
                       ELSE vaf_5th(cell_of(table[i], cols))]]

\* tp['VAF_VALUE'] = ..., fn['VAF_VALUE'] = ..., fp['VAF_VALUE'] = ...;
\* xs are the columns that bear 'HG008-T_x' in tp and fp, ys those that bear
\* 'HG008-T_y' in fn
scores_merged(tp, fn, fp, xs, ys) ==
    LET vaf_err == FirstErr(<<apply_err(tp, xs, FALSE), apply_err(fn, ys, TRUE),
                              apply_err(fp, xs, FALSE)>>)
    IN  IF vaf_err /= "none"
        THEN [ScoresUnset EXCEPT !.err = vaf_err, !.stage = "vaf",
                                 !.tp = tp, !.fn = fn, !.fp = fp]
        ELSE scores_valued(with_vaf(tp, xs, FALSE), with_vaf(fn, ys, TRUE),
                           with_vaf(fp, xs, FALSE))

scores_of(vcf_df, gt_df, exact) ==
    scores_merged(merge_inner(vcf_df, gt_df, exact),
                  merge_left_only(gt_df, vcf_df, exact),
                  merge_left_only(vcf_df, gt_df, exact),
                  labelled(vcf_df, gt_df, "HG008-T_x"),
                  labelled(gt_df, vcf_df, "HG008-T_y"))

\* GT_POS = gt_df['POS'], then the three merges in their order
merges_err(vcf_df, gt_df) ==
    IF "POS" \notin Columns(gt_df) THEN "KeyError"
    ELSE IF merge_err(vcf_df, gt_df, FALSE) /= "none" THEN merge_err(vcf_df, gt_df, FALSE)
    ELSE IF merge_err(gt_df, vcf_df, TRUE) /= "none" THEN merge_err(gt_df, vcf_df, TRUE)
    ELSE merge_err(vcf_df, gt_df, TRUE)

deepsomatic_scores(vcf_df, gt_df) ==
    IF merges_err(vcf_df, gt_df) /= "none"
    THEN [ScoresUnset EXCEPT !.err = merges_err(vcf_df, gt_df)]
    ELSE scores_of(vcf_df, gt_df, exact_keys(vcf_df, gt_df))

\* vcf_df = read_vcf(DEEPSOMATIC_OUTPUT); vcf_df = fix_output_vcf(vcf_df).
\* setup_path has found the files to exist; query_file.df is the DataFrame
\* read_vcf returns
SA_ReadOutput ==
    /\ prog = "somatic_analysis" /\ pc = "read_output"
    /\ IF query_file.raises /= "none"
       THEN query_variants' = query_variants /\ pc' = "failed_read_output"
            /\ err' = query_file.raises
       ELSE IF fix_output_vcf_err(query_file.df) /= "none"
       THEN query_variants' = query_variants /\ pc' = "failed_read_output"
            /\ err' = fix_output_vcf_err(query_file.df)
       ELSE query_variants' = fix_output_vcf(query_file.df) /\ pc' = "read_truth"
            /\ err' = err
    /\ UNCHANGED <<prog, truth_file, query_file, truth_variants, result, counts,
                   metrics, label, normed>>

\* gt_df = read_vcf(GROUND_TRUTH_VCF); gt_df = fix_ground_truth_vcf(gt_df)
SA_ReadTruth ==
    /\ prog = "somatic_analysis" /\ pc = "read_truth"
    /\ IF truth_file.raises /= "none"
       THEN truth_variants' = truth_variants /\ pc' = "failed_read_truth"
            /\ err' = truth_file.raises
       ELSE IF fix_ground_truth_vcf_err(truth_file.df) /= "none"
       THEN truth_variants' = truth_variants /\ pc' = "failed_read_truth"
            /\ err' = fix_ground_truth_vcf_err(truth_file.df)
       ELSE truth_variants' = fix_ground_truth_vcf(truth_file.df) /\ pc' = "scores"
            /\ err' = err
    /\ UNCHANGED <<prog, truth_file, query_file, query_variants, result, counts,
                   metrics, label, normed>>

\* deepsomatic_scores(vcf_df, gt_df)
SA_Scores ==
    /\ prog = "somatic_analysis" /\ pc = "scores"
    /\ \E s \in {deepsomatic_scores(query_variants, truth_variants)} :
           /\ result' = [tp |-> s.tp, fn |-> s.fn, fp |-> s.fp,
                         tp_f |-> s.tp_f, fn_f |-> s.fn_f, fp_f |-> s.fp_f]
           /\ counts' = s.counts
           /\ metrics' = [unfiltered |-> s.unfiltered, filtered |-> s.filtered]
           /\ err' = s.err
           /\ pc' = CASE s.err = "none" -> "done"
                      [] s.err /= "none" /\ s.stage = "merge" -> "failed_merge"
                      [] s.err /= "none" /\ s.stage = "vaf" -> "failed_vaf"
                      [] s.err /= "none" /\ s.stage = "prints" -> "failed_prints"
    /\ UNCHANGED <<prog, truth_file, query_file, truth_variants, query_variants,
                   label, normed>>

\* The DataFrames of the files that hold given calls.  read_csv makes a
\* column whose every value is a decimal integer an int64 column and a column
\* with any other text an object column of str; the columns of a file
\* without data lines are object columns.
TumorNames == {"TUMOR", "HG008-T"}

\* the values of a call under the columns of the DeepSomatic output, whose
\* sample column has the name s, and under those of the ground truth
QueryEntry(v, s) ==
    ("#CHROM" :> v.chrom) @@ ("POS" :> v.pos) @@ ("ID" :> Dot) @@ ("REF" :> v.ref)
        @@ ("ALT" :> v.alt) @@ ("QUAL" :> Dot) @@ ("FILTER" :> v.filter) @@ ("INFO" :> Dot)
        @@ ("FORMAT" :> v.format) @@ (s :> v.sample)

TruthEntry(v) ==
    ("#CHROM" :> v.chrom) @@ ("POS" :> v.pos) @@ ("ID" :> Dot) @@ ("REF" :> v.ref)
        @@ ("ALT" :> v.alt) @@ ("QUAL" :> Dot) @@ ("FILTER" :> v.filter) @@ ("INFO" :> Dot)
        @@ ("FORMAT" :> v.format) @@ ("HG008-N" :> SampleNormal) @@ ("HG008-T" :> v.sample)

QueryColumns(s) == DOMAIN QueryEntry(QAG, s)
TruthColumns == DOMAIN TruthEntry(TAG)

\* a text of decimal digits, few enough for an int64
SmallInteger(text) == AllDigits(text) /\ Len(text) <= 18

FrameTyped(entries, dtypes) ==
    [dtypes |-> dtypes,
     rows |-> [i \in 1..Len(entries) |->
                 [c \in DOMAIN dtypes |->
                     IF dtypes[c] = "int64" THEN IntCell(int_val(entries[i][c]))
                     ELSE StrCell(entries[i][c])]]]

FrameOf(names, entries) ==
    FrameTyped(entries,
               [c \in names |->
                   IF entries /= <<>> /\ \A i \in 1..Len(entries) : SmallInteger(entries[i][c])
                   THEN "int64" ELSE "object"])

QueryFrame(calls, s) == FrameOf(QueryColumns(s), [i \in 1..Len(calls) |-> QueryEntry(calls[i], s)])
TruthFrame(calls) == FrameOf(TruthColumns, [i \in 1..Len(calls) |-> TruthEntry(calls[i])])

\* a file without a header line
NoDataFile == [raises |-> "EmptyDataError", df |-> [dtypes |-> << >>, rows |-> <<>>]]

QueryFrames(calls, n) ==
    {[raises |-> "none", df |-> QueryFrame(c, s)] : c \in SeqsUpTo(calls, n), s \in TumorNames}
        \cup {NoDataFile}

TruthFrames(calls, n) ==
    {[raises |-> "none", df |-> TruthFrame(c)] : c \in SeqsUpTo(calls, n)} \cup {NoDataFile}

FramePairsOf(tcalls, qcalls) ==
    {p \in TruthFrames(tcalls, MaxLines) \X QueryFrames(qcalls, MaxLines) :
        Len(p[1].df.rows) + Len(p[2].df.rows) <= MaxLines}

FramePairs ==
    FramePairsOf({TAG, TAGLow, TNoChr, TOutOfRegion, TGermline, TruthOnly},
                 {QAG, QAGLow, QNoChr, QBadPos, QOutOfRegion, QGermline})

----------------------------------------------------------------------------
(* visualize_variants.py.  The script reads its files with pysam, and a     *)
(* file is held as what pysam.VariantFile hands to the loop: the records it *)
(* yields, and the exception raised by the opening of the file or by the    *)
(* read after the last of these records ("none" when the file ends there).  *)
(* A record is the attributes the script reads: chrom, pos (an int, held as *)
(* its decimal text), ref, alts (a tuple of str, held empty when it is      *)
(* None) and the labels of filter.                                          *)

\* 'PASS' in record.filter or len(record.filter) == 0
filter_passes(labels) == (\E i \in 1..Len(labels) : labels[i] = PASS) \/ Len(labels) = 0

\* records i.. of the file, variants being the set built so far;
\* record.alts[0] of a record without alternate allele raises TypeError
RECURSIVE get_variants_from(_, _, _)
get_variants_from(vcf, i, variants) ==
    IF i > Len(vcf.records) THEN [err |-> vcf.raises, variants |-> variants]
    ELSE IF ~filter_passes(vcf.records[i].filter) THEN get_variants_from(vcf, i + 1, variants)
    ELSE IF vcf.records[i].alts = <<>> THEN [err |-> "TypeError", variants |-> variants]
    ELSE get_variants_from(vcf, i + 1,
             variants \cup {<<vcf.records[i].chrom, vcf.records[i].pos, vcf.records[i].ref,
                              vcf.records[i].alts[1]>>})

get_variants(vcf) == get_variants_from(vcf, 1, {})

\* truth_set = get_variants(ground_truth_file)
VV_LoadTruth ==
    /\ prog = "visualize_variants" /\ pc = "load_truth"
    /\ \E r \in {get_variants(truth_file)} :
           IF r.err = "none"
           THEN truth_variants' = r.variants /\ pc' = "load_predicted" /\ err' = err
           ELSE truth_variants' = truth_variants /\ pc' = "failed_load_truth" /\ err' = r.err
    /\ UNCHANGED <<prog, truth_file, query_file, query_variants, result, counts,
                   metrics, label, normed>>

\* predicted_set = get_variants(deepsomatic_file)
VV_LoadPredicted ==
    /\ prog = "visualize_variants" /\ pc = "load_predicted"
    /\ \E r \in {get_variants(query_file)} :
           IF r.err = "none"
           THEN query_variants' = r.variants /\ pc' = "intersections" /\ err' = err
           ELSE query_variants' = query_variants /\ pc' = "failed_load_predicted" /\ err' = r.err
    /\ UNCHANGED <<prog, truth_file, query_file, truth_variants, result, counts,
                   metrics, label, normed>>

\* tp = truth_set.intersection(predicted_set); fp = ...; fn = ...
VV_Intersections ==
    /\ prog = "visualize_variants" /\ pc = "intersections"
    /\ result' = [tp |-> truth_variants \cap query_variants,
                  fp |-> query_variants \ truth_variants,
                  fn |-> truth_variants \ query_variants]
    /\ counts' = [tp |-> Cardinality(result'.tp), fp |-> Cardinality(result'.fp),
                  fn |-> Cardinality(result'.fn)]
    /\ pc' = "metrics"
    /\ UNCHANGED <<prog, err, truth_file, query_file, truth_variants, query_variants,
                   metrics, label, normed>>

\* the metric block: precision and recall stay unbound when their set is
\* empty, and 'precision + recall' then raises NameError
vv_metrics(truth_set, predicted_set, tp, fp, fn) ==
    LET precision == IF Cardinality(predicted_set) > 0 THEN Frac(tp, tp + fp) ELSE None
        recall    == IF Cardinality(truth_set) > 0 THEN Frac(tp, tp + fn) ELSE None
    IN  IF Cardinality(predicted_set) = 0 \/ Cardinality(truth_set) = 0
        THEN [err |-> "NameError", precision |-> precision, recall |-> recall, f1 |-> None]
        ELSE [err |-> "none", precision |-> precision, recall |-> recall,
              f1 |-> IF RatPos(RatAdd(precision, recall))
                     THEN RatDiv(RatMul(<<2, 1>>, RatMul(precision, recall)),
                                 RatAdd(precision, recall))
                     ELSE None]

VV_Metrics ==
    /\ prog = "visualize_variants" /\ pc = "metrics"
    /\ \E m \in {vv_metrics(truth_variants, query_variants, counts.tp, counts.fp, counts.fn)} :
           /\ metrics' = [precision |-> m.precision, recall |-> m.recall, f1 |-> m.f1]
           /\ err' = m.err
           /\ pc' = IF m.err = "none" THEN "done" ELSE "failed_metrics"
    /\ UNCHANGED <<prog, truth_file, query_file, truth_variants, query_variants,
                   result, counts, label, normed>>

\* The record pysam makes of the data line of a call: '.' in ALT is no
\* allele and '.' in FILTER no label.
RecordOf(v) ==
    [chrom |-> v.chrom, pos |-> v.pos, ref |-> v.ref,
     alts |-> IF v.alt = Dot THEN <<>> ELSE str_split(v.alt, ","),
     filter |-> IF v.filter = Dot THEN <<>> ELSE str_split(v.filter, ";")]

\* the files that hold at most n of the records R, and those whose next line
\* htslib cannot parse
VariantFiles(R, n) ==
    {[records |-> s, raises |-> "none"] : s \in SeqsUpTo(R, n)}
        \cup {[records |-> s, raises |-> "OSError"] : s \in SeqsUpTo(R, 1)}

VariantFilePairs ==
    {p \in VariantFiles({RecordOf(v) : v \in {TAG, TNoChr, TMulti, TGermline, TruthOnly}},
                        MaxLines)
           \X VariantFiles({RecordOf(v) : v \in {QAG, QMulti, QNoAlt, QGermline, QOutOfRegion}},
                           MaxLines) :
        Len(p[1].records) + Len(p[2].records) <= MaxLines}

----------------------------------------------------------------------------
(* debug/vis.py: parse_vcf *)

var_type(ref, alt) ==
    IF Len(ref) = 1 /\ Len(alt) = 1 THEN "SNP"
    ELSE IF Len(ref) > Len(alt) THEN "DEL"
    ELSE IF Len(ref) < Len(alt) THEN "INS"
    ELSE "COMPLEX"

RECURSIVE vis_parse_vcf_from(_, _, _)

\* fields = line.strip().split('\t') and what follows it
vis_parse_vcf_fields(f, i, variants, fields) ==
    IF Len(fields) < 8 THEN vis_parse_vcf_from(f, i + 1, variants)
    ELSE IF ~int_ok(fields[2]) THEN [err |-> "ValueError", variants |-> variants]
    ELSE IF fields[6] /= <<".">> /\ ~float_ok(fields[6])
         THEN [err |-> "ValueError", variants |-> variants]
    ELSE vis_parse_vcf_from(f, i + 1,
             Append(variants,
                    [chrom |-> fields[1], pos |-> int_val(fields[2]),
                     ref |-> fields[4], alt |-> fields[5],
                     qual |-> IF fields[6] /= <<".">> THEN float_val(fields[6]) ELSE 0,
                     type |-> var_type(fields[4], fields[5])]))

\* for line in f: a read that fails ends the loop with its exception
vis_parse_vcf_from(f, i, variants) ==
    IF i > Len(f.lines) THEN [err |-> f.raises, variants |-> variants]
    ELSE IF startswith(f.lines[i], <<"#">>) THEN vis_parse_vcf_from(f, i + 1, variants)
    ELSE vis_parse_vcf_fields(f, i, variants, str_split(str_strip(f.lines[i]), "\t"))

vis_parse_vcf(f) == vis_parse_vcf_from(f, 1, <<>>)

\* variants, stats = parse_vcf(vcf_path), the file having been found to exist
DV_Parse ==
    /\ prog = "debug_vis" /\ pc = "parse"
    /\ \E r \in {vis_parse_vcf(query_file)} :
           IF r.err = "none"
           THEN query_variants' = r.variants /\ pc' = "done" /\ err' = err
           ELSE query_variants' = query_variants /\ pc' = "failed_parse" /\ err' = r.err
    /\ UNCHANGED <<prog, truth_file, query_file, truth_variants, result, counts,
                   metrics, label, normed>>

----------------------------------------------------------------------------
(* The scripts, each run on every pair of input files *)

Init ==
    /\ prog \in {"compare_vcf", "somatic_analysis", "visualize_variants", "debug_vis"}
    /\ pc = CASE prog = "compare_vcf" -> "load_truth"
              [] prog = "somatic_analysis" -> "read_output"
              [] prog = "visualize_variants" -> "load_truth"
              [] prog = "debug_vis" -> "parse"
    /\ err = "none"
    /\ \E p \in CASE prog = "compare_vcf" -> TextFilePairs
                  [] prog = "somatic_analysis" -> FramePairs
                  [] prog = "visualize_variants" -> VariantFilePairs
                  [] prog = "debug_vis" -> {None} \X TextFiles(QueryLines, MaxLines) :
          truth_file = p[1] /\ query_file = p[2]
    /\ truth_variants = None /\ query_variants = None
    /\ result = None /\ counts = None /\ metrics = None
    /\ label = <<>> /\ normed = <<>>

Next ==
    \/ CV_LoadTruth \/ CV_LoadQuery \/ CV_Compare \/ CV_Metrics
    \/ SA_ReadOutput \/ SA_ReadTruth \/ SA_Scores
    \/ VV_LoadTruth \/ VV_LoadPredicted \/ VV_Intersections \/ VV_Metrics
    \/ DV_Parse

Spec == Init /\ [][Next]_vars

----------------------------------------------------------------------------
(* Unit specifications of the pure functions of compare_vcf.py *)

Alphabet == {"c", "h", "r", "1"}

InitNormalize ==
    /\ prog = "normalize_chrom" /\ pc = "call" /\ err = "none"
    /\ label \in SeqsUpTo(Alphabet, MaxLabelLen)
    /\ normed = <<>>
    /\ truth_file = None /\ query_file = None
    /\ truth_variants = None /\ query_variants = None
    /\ result = None /\ counts = None /\ metrics = None

\* normalize_chrom applied to the label, then to its own result
NormalizeChrom ==
    /\ prog = "normalize_chrom" /\ Len(normed) < 2
    /\ normed' = Append(normed, normalize_chrom(IF normed = <<>> THEN label
                                                ELSE normed[Len(normed)]))
    /\ UNCHANGED <<prog, pc, err, truth_file, query_file, truth_variants,
                   query_variants, result, counts, metrics, label>>

SpecNormalize == InitNormalize /\ [][NormalizeChrom]_vars

UnitKeys == {<<n17, nat_str(100 * i), <<"A">>, <<"G">>>> : i \in 1..MaxKeys}

InitMatch ==
    /\ prog = "compare_vcf" /\ pc = "compare" /\ err = "none"
    /\ truth_variants \in SUBSET UnitKeys
    /\ query_variants \in SUBSET UnitKeys
    /\ truth_file = None /\ query_file = None
    /\ result = None /\ counts = None /\ metrics = None
    /\ label = <<>> /\ normed = <<>>

SpecMatch == InitMatch /\ [][CV_Compare]_vars

\* both orders of the arguments of compare_variants
InitSwap ==
    /\ prog = "compare_variants" /\ pc = "call" /\ err = "none"
    /\ truth_variants \in SUBSET UnitKeys
    /\ query_variants \in SUBSET UnitKeys
    /\ truth_file = None /\ query_file = None
    /\ result = None /\ counts = None /\ metrics = None
    /\ label = <<>> /\ normed = <<>>

\* compare_variants(A, B) and compare_variants(B, A)
CompareBothWays ==
    /\ prog = "compare_variants" /\ pc = "call"
    /\ result' = [ab |-> compare_variants(truth_variants, query_variants),
                  ba |-> compare_variants(query_variants, truth_variants)]
    /\ pc' = "done"
    /\ UNCHANGED <<prog, err, truth_file, query_file, truth_variants, query_variants,
                   counts, metrics, label, normed>>

SpecSwap == InitSwap /\ [][CompareBothWays]_vars

\* somatic_analysis.py over files whose sample columns vary in layout
VafFramePairs ==
    FramePairsOf({TAG, TruthOnly},
                 {QAG, QReordered, QShort, QNoNumber, QNoVAF, QTruthLayout})

InitVaf ==
    /\ prog = "somatic_analysis" /\ pc = "read_output" /\ err = "none"
    /\ \E p \in VafFramePairs : truth_file = p[1] /\ query_file = p[2]
    /\ truth_variants = None /\ query_variants = None
    /\ result = None /\ counts = None /\ metrics = None
    /\ label = <<>> /\ normed = <<>>

NextVaf == SA_ReadOutput \/ SA_ReadTruth \/ SA_Scores

SpecVaf == InitVaf /\ [][NextVaf]_vars

InitMetrics ==
    /\ prog = "compare_vcf" /\ pc = "metrics" /\ err = "none"
    /\ counts \in [tp : 0..MaxCount, fp : 0..MaxCount, fn : 0..MaxCount]
    /\ truth_file = None /\ query_file = None
    /\ truth_variants = None /\ query_variants = None
    /\ result = None /\ metrics = None
    /\ label = <<>> /\ normed = <<>>

SpecMetrics == InitMetrics /\ [][CV_Metrics]_vars

----------------------------------------------------------------------------
(* Claims about the pure functions *)

\* C1: the result (tp, fp, fn) of compare_variants is a partition-style
\* classification: tp, fp and fn are pairwise disjoint, tp \cup fp is the query
\* set, tp \cup fn is the truth set, so |tp| + |fp| = |query| and
\* |tp| + |fn| = |truth|.
C1_Partition ==
    (prog = "compare_vcf" /\ pc = "metrics") =>
        /\ result.tp \cap result.fp = {}
        /\ result.tp \cap result.fn = {}
        /\ result.fp \cap result.fn = {}
        /\ result.tp \cup result.fp = query_variants
        /\ result.tp \cup result.fn = truth_variants
        /\ counts.tp + counts.fp = Cardinality(query_variants)
        /\ counts.tp + counts.fn = Cardinality(truth_variants)

\* a comparison in which all three classes are inhabited
C1_Witness ==
    /\ prog = "compare_vcf" /\ pc = "metrics"
    /\ result.tp /= {} /\ result.fp /= {} /\ result.fn /= {}

\* C4: normalize_chrom is idempotent: normalizing a normalized label changes
\* nothing, for every label (including interleaved ones such as "cchrhr").
C4_Idempotent ==
    (prog = "normalize_chrom" /\ Len(normed) = 2) => normed[2] = normed[1]

\* C5: normalize_chrom removes the prefix only when the label starts with it and
\* removes only that leading occurrence: a label beginning with "chr" loses its
\* first three characters, every other label is returned unchanged.
C5_PrefixOnly ==
    (prog = "normalize_chrom" /\ Len(normed) >= 1) =>
        normed[1] = IF startswith(label, ChrPrefix)
                    THEN SubSeq(label, 4, Len(label))
                    ELSE label

\* C6: calculate_metrics returns precision = tp/(tp+fp) or 0, recall =
\* tp/(tp+fn) or 0, f1 = 2*precision*recall/(precision+recall) or 0, each in
\* [0,1]; compute(0,0,0) = (0,0,0), compute(5,0,0) = (1,1,1),
\* compute(0,5,5) = (0,0,0).  Equalities of fractions are cross-multiplied.
C6_Metrics ==
    (prog = "compare_vcf" /\ pc = "done") =>
        LET tp == counts.tp
            fp == counts.fp
            fn == counts.fn
            p  == metrics.precision
            r  == metrics.recall
            f  == metrics.f1
            IsZero(x) == x[1] = 0 /\ x[2] > 0
            IsOne(x)  == x[1] = x[2] /\ x[2] > 0
            InUnit(x) == 0 <= x[1] /\ x[1] <= x[2] /\ x[2] > 0
        IN  /\ IF tp + fp > 0 THEN p[1] * (tp + fp) = tp * p[2] ELSE IsZero(p)
            /\ IF tp + fn > 0 THEN r[1] * (tp + fn) = tp * r[2] ELSE IsZero(r)
            /\ IF p[1] * r[2] + r[1] * p[2] > 0
               THEN f[1] * (p[1] * r[2] + r[1] * p[2]) = 2 * p[1] * r[1] * f[2]
               ELSE IsZero(f)
            /\ InUnit(p) /\ InUnit(r) /\ InUnit(f)
            /\ (tp = 0 /\ fp = 0 /\ fn = 0) => (IsZero(p) /\ IsZero(r) /\ IsZero(f))
            /\ (tp = 5 /\ fp = 0 /\ fn = 0) => (IsOne(p) /\ IsOne(r) /\ IsOne(f))
            /\ (tp = 0 /\ fp = 5 /\ fn = 5) => (IsZero(p) /\ IsZero(r) /\ IsZero(f))

\* counts 2, 1, 2: precision 2/3, recall 1/2, f1 4/7
C6_Witness ==
    /\ prog = "compare_vcf" /\ pc = "done"
    /\ counts = [tp |-> 2, fp |-> 1, fn |-> 2]
    /\ metrics = [precision |-> <<2, 3>>, recall |-> <<1, 2>>, f1 |-> <<4, 7>>]

----------------------------------------------------------------------------
(* Claims about the scripts.  The claims speak of the records of the two   *)
(* inputs; a record is seen through the reader of the script: a data line  *)
(* of a text file, a record of pysam, a row of the DataFrame.              *)

FieldAt(F, k) == IF k <= Len(F) THEN F[k] ELSE <<>>

\* a record of at least 8 fields: its chromosome, position (and whether it is
\* an integer), reference, ALT field and FILTER field
FieldsView(isdata, F) ==
    [data |-> isdata /\ Len(F) >= 8, chrom |-> FieldAt(F, 1),
     posOk |-> int_ok(FieldAt(F, 2)),
     pos |-> IF int_ok(FieldAt(F, 2)) THEN int_val(FieldAt(F, 2)) ELSE FieldAt(F, 2),
     ref |-> FieldAt(F, 4), alt |-> FieldAt(F, 5), filter |-> FieldAt(F, 7)]

\* a line of a text file: its fields are what the tabs separate, the line
\* ending apart; a line that starts with '#' is no record
TextView(line) ==
    FieldsView(~startswith(line, <<"#">>), str_split(rstrip_of(line, {"\n", "\r"}), "\t"))

RecordView(r) ==
    [data |-> TRUE, chrom |-> r.chrom, posOk |-> TRUE, pos |-> r.pos, ref |-> r.ref,
     alt |-> IF r.alts = <<>> THEN Dot ELSE str_join(r.alts, <<",">>),
     filter |-> IF r.filter = <<>> THEN Dot ELSE str_join(r.filter, <<";">>)]

\* the text of cell c of a row, for a str and for an int
CellText(r, c) == IF c \in DOMAIN r /\ r[c].kind \in {"str", "int"} THEN r[c].str ELSE <<>>

RowView(r) ==
    [data |-> /\ {"#CHROM", "POS", "REF", "ALT", "FILTER"} \subseteq DOMAIN r
              /\ r["#CHROM"].kind \in {"str", "int"}
              /\ r["REF"].kind = "str" /\ r["ALT"].kind = "str" /\ r["FILTER"].kind = "str",
     chrom |-> CellText(r, "#CHROM"),
     posOk |-> "POS" \in DOMAIN r /\ r["POS"].kind = "int",
     pos |-> CellText(r, "POS"), ref |-> CellText(r, "REF"), alt |-> CellText(r, "ALT"),
     filter |-> CellText(r, "FILTER")]

\* the records of an input file of the running script
Views(file) ==
    CASE prog \in {"compare_vcf", "debug_vis"} ->
            [i \in 1..Len(file.lines) |-> TextView(file.lines[i])]
      [] prog = "visualize_variants" ->
            [i \in 1..Len(file.records) |-> RecordView(file.records[i])]
      [] prog = "somatic_analysis" ->
            [i \in 1..Len(file.df.rows) |-> RowView(file.df.rows[i])]

\* the keys of a DataFrame's rows
DfKeys(df) == {RowKey(df.rows[i]) : i \in 1..Len(df.rows)}

\* somatic_analysis has printed its unfiltered counts
SA_Reported == prog = "somatic_analysis" /\ pc \in {"done", "failed_prints"}

\* C2: the true-positive, false-positive and false-negative counts reported by
\* deepsomatic_scores equal the cardinalities of the key-set intersection,
\* query keys - truth keys and truth keys - query keys, also when a key occurs
\* in several rows with differing auxiliary columns.
C2_KeySetCounts ==
    SA_Reported =>
        LET TK == DfKeys(truth_variants)
            QK == DfKeys(query_variants)
        IN  /\ counts.tp = Cardinality(TK \cap QK)
            /\ counts.fp = Cardinality(QK \ TK)
            /\ counts.fn = Cardinality(TK \ QK)

\* a record with an integer position and a single alternate allele
PlainView(v) == v.data /\ v.posOk /\ Len(str_split(v.alt, ",")) = 1

\* two records for the same variant whose chromosome labels differ by the prefix
PrefixPair(t, q) ==
    /\ PlainView(t) /\ PlainView(q)
    /\ t.pos = q.pos /\ t.ref = q.ref /\ t.alt = q.alt
    /\ (t.chrom = ChrPrefix \o q.chrom \/ q.chrom = ChrPrefix \o t.chrom)

\* the position lies in [MIN_REGION, MAX_REGION]
InRegion(pos) == cell_ge(IntCell(pos), MIN_REGION) /\ cell_le(IntCell(pos), MAX_REGION)

\* the record is not removed by the filters the script applies to that input
PassesTruthFilters(v) ==
    CASE prog = "somatic_analysis" -> InRegion(v.pos) /\ v.chrom \in CHROMOSOMES
      [] prog = "visualize_variants" -> v.filter \in {PASS, Dot}
      [] OTHER -> TRUE

PassesQueryFilters(v) ==
    CASE prog = "somatic_analysis" -> v.filter \notin {RefCall, GERMLINE}
      [] prog = "visualize_variants" -> v.filter \in {PASS, Dot}
      [] OTHER -> TRUE

\* the script has classified its inputs
Compared ==
    \/ prog = "compare_vcf" /\ pc \in {"metrics", "done"}
    \/ prog = "visualize_variants" /\ pc \in {"metrics", "done", "failed_metrics"}
    \/ prog = "somatic_analysis" /\ pc \in {"done", "failed_vaf", "failed_prints"}

\* pd.merge refused the two tables
MergeFailed == prog = "somatic_analysis" /\ pc = "failed_merge"

\* the keys the script put in class c ("tp", "fp" or "fn")
ClassKeys(c) ==
    IF prog = "somatic_analysis"
    THEN {RowKey(result[c][i].x) : i \in 1..Len(result[c])}
    ELSE result[c]

\* the labels of a chromosome, with and without the prefix
ChromLabels(chrom) ==
    {chrom, ChrPrefix \o chrom,
     IF startswith(chrom, ChrPrefix) THEN SubSeq(chrom, 4, Len(chrom)) ELSE chrom}

\* key k is the variant of record v, up to the chromosome prefix; the keys of
\* somatic_analysis are made of cells, and a label of digits may be a number
KeyOfView(k, v) ==
    IF prog = "somatic_analysis"
    THEN /\ k[2] = KeyCell(IntCell(v.pos))
         /\ k[3] = KeyCell(StrCell(v.ref)) /\ k[4] = KeyCell(StrCell(v.alt))
         /\ k[1] \in {KeyCell(StrCell(c)) : c \in ChromLabels(v.chrom)}
                       \cup {KeyCell(IntCell(int_val(c))) :
                                c \in {d \in ChromLabels(v.chrom) : SmallInteger(d)}}
    ELSE /\ k[2] = v.pos /\ k[3] = v.ref /\ k[4] = v.alt
         /\ k[1] \in ChromLabels(v.chrom)

AllPlain == /\ \A i \in 1..Len(Views(truth_file)) : PlainView(Views(truth_file)[i])
            /\ \A j \in 1..Len(Views(query_file)) : PlainView(Views(query_file)[j])

\* a truth record and a query record that differ by the prefix and pass the
\* filters of their inputs
PairToMatch(t, q) == PrefixPair(t, q) /\ PassesTruthFilters(t) /\ PassesQueryFilters(q)

\* C3: a truth record and a query record with equal position, reference and
\* alternate whose raw chromosome labels differ only by the build prefix are
\* classified as a true positive by every comparison path, never as a false
\* positive plus a false negative.
C3_PrefixPairsMatch ==
    /\ (Compared /\ AllPlain) =>
          \A t \in Range(Views(truth_file)) : \A q \in Range(Views(query_file)) :
              PairToMatch(t, q) =>
                  /\ \E k \in ClassKeys("tp") : KeyOfView(k, t)
                  /\ ~\E k \in ClassKeys("fp") \cup ClassKeys("fn") : KeyOfView(k, t)
    \* a merge that raises classifies no pair at all
    /\ (MergeFailed /\ AllPlain) =>
          \A t \in Range(Views(truth_file)) : \A q \in Range(Views(query_file)) :
              ~PairToMatch(t, q)

\* the script has reached its metric code with a zero denominator
ZeroDenominator ==
    \/ /\ prog = "compare_vcf" /\ pc = "done"
       /\ (counts.tp + counts.fp = 0 \/ counts.tp + counts.fn = 0)
    \/ /\ prog = "visualize_variants" /\ pc \in {"done", "failed_metrics"}
       /\ (counts.tp + counts.fp = 0 \/ counts.tp + counts.fn = 0)
    \/ /\ prog = "somatic_analysis" /\ pc \in {"done", "failed_prints"}
       /\ \/ counts.tp + counts.fp = 0
          \/ counts.tp + counts.fn = 0
          \/ Len(result.tp_f) + Len(result.fp_f) = 0
          \/ Len(result.tp_f) + Len(result.fn_f) = 0

\* C7: whenever the truth set, the query set or both are empty (or filtering
\* leaves tp+fp = 0 or tp+fn = 0), every scoring path finishes without raising
\* an error and reports the affected metrics as 0.
C7_EmptyInputScores ==
    ZeroDenominator =>
        /\ err = "none"
        /\ prog = "compare_vcf" =>
              /\ counts.tp + counts.fp = 0 => metrics.precision = Zero
              /\ counts.tp + counts.fn = 0 => metrics.recall = Zero
              /\ metrics.f1 = Zero
        /\ prog = "visualize_variants" =>
              /\ counts.tp + counts.fp = 0 => metrics.precision = Zero
              /\ counts.tp + counts.fn = 0 => metrics.recall = Zero
        /\ prog = "somatic_analysis" =>
              /\ counts.tp + counts.fp = 0 => metrics.unfiltered.precision = Zero
              /\ counts.tp + counts.fn = 0 => metrics.unfiltered.recall = Zero
              /\ Len(result.tp_f) + Len(result.fp_f) = 0 => metrics.filtered.precision = Zero
              /\ Len(result.tp_f) + Len(result.fn_f) = 0 => metrics.filtered.recall = Zero

\* what a parser made of a file: the (position, reference, alternate) of its records
ParsedTriples(out) ==
    IF prog = "debug_vis"
    THEN {<<out[i].pos, out[i].ref, out[i].alt>> : i \in 1..Len(out)}
    ELSE {<<k[2], k[3], k[4]>> : k \in out}

\* every listed alternate of record v has its own parsed record, and the
\* list as a whole has none
ExpandedView(v, alts, triples) ==
    /\ \A a \in 1..Len(alts) : <<v.pos, v.ref, alts[a]>> \in triples
    /\ Len(alts) > 1 => <<v.pos, v.ref, v.alt>> \notin triples

\* so for every record the parser keeps
Expanded(views, triples) ==
    \A i \in 1..Len(views) :
        (views[i].data /\ (prog = "visualize_variants" => views[i].filter \in {PASS, Dot})) =>
            ExpandedView(views[i], str_split(views[i].alt, ","), triples)

\* C8: for every data line whose alternate field lists n alternates, every
\* parser (compare_vcf parse_vcf, visualize_variants get_variants, debug/vis
\* parse_vcf) produces one record per listed alternate, each carrying a single
\* alternate and sharing the line's position and reference.
C8_MultiAllelic ==
    /\ (prog \in {"compare_vcf", "visualize_variants"}
            /\ pc \in {"load_query", "load_predicted"}) =>
          Expanded(Views(truth_file), ParsedTriples(truth_variants))
    /\ (prog = "compare_vcf" /\ pc = "compare") =>
          Expanded(Views(query_file), ParsedTriples(query_variants))
    /\ (prog = "visualize_variants" /\ pc = "intersections") =>
          Expanded(Views(query_file), ParsedTriples(query_variants))
    /\ (prog = "debug_vis" /\ pc = "done") =>
          Expanded(Views(query_file), ParsedTriples(query_variants))

\* the fields of the lines of a file that are well formed for parse_vcf: the
\* line is no header line, it has at least 5 fields and its position is an integer
WellFormedFields(f) ==
    {F \in {str_split(str_strip(l), "\t") : l \in {m \in Range(f.lines) : ~startswith(m, <<"#">>)}} :
        Len(F) >= 5 /\ int_ok(F[2])}

\* the records of the well-formed lines of a file, as parse_vcf builds them
WellFormedRecords(f) == UNION {parse_vcf_line(F) : F \in WellFormedFields(f)}

\* C9: parse_vcf runs to completion on every sequence of lines: a line with at
\* least 5 fields and an invalid position contributes no record, and every
\* well-formed line before and after it still contributes its records.
C9_MalformedSkipped ==
    (prog = "compare_vcf" /\ truth_file.raises = "none" /\ query_file.raises = "none") =>
        /\ pc \notin {"failed_load_truth", "failed_load_query"}
        /\ pc = "load_query" => truth_variants = WellFormedRecords(truth_file)
        /\ pc = "compare" => query_variants = WellFormedRecords(query_file)

\* the row violates none of the configured filter options
PassesEveryOption(r) ==
    /\ "FILTER" \in DOMAIN r =>
          ~(r["FILTER"].kind = "str" /\ r["FILTER"].str \in {RefCall, GERMLINE})
    /\ "#CHROM" \in DOMAIN r =>
          (r["#CHROM"].kind = "str" /\ r["#CHROM"].str \in CHROMOSOMES)
    /\ ("POS" \in DOMAIN r /\ r["POS"].kind /= "str") =>
          (cell_ge(r["POS"], MIN_REGION) /\ cell_le(r["POS"], MAX_REGION))

\* C10: the same filter configuration is applied to both inputs: no record
\* outside the region bounds or the allowed chromosomes and no record carrying
\* an excluded FILTER label reaches the matcher from either side.
C10_SameFilters ==
    (prog = "somatic_analysis" /\ pc = "scores") =>
        /\ \A i \in 1..Len(truth_variants.rows) : PassesEveryOption(truth_variants.rows[i])
        /\ \A i \in 1..Len(query_variants.rows) : PassesEveryOption(query_variants.rows[i])

----------------------------------------------------------------------------
(* Claims about the allele-fraction filter of somatic_analysis.py *)

\* the names under which a FORMAT declares the allele fraction
AlleleFractionNames == {<<"V", "A", "F">>, <<"A", "F">>}

\* the names the record's FORMAT declares, in their order
FormatNames(r) ==
    IF "FORMAT" \in DOMAIN r /\ r["FORMAT"].kind = "str"
    THEN str_split(r["FORMAT"].str, ":") ELSE <<>>

\* the record's value in the column of the tumor sample
SampleCell(r) ==
    IF TumorNames \cap DOMAIN r = {} THEN NaNCell
    ELSE r[CHOOSE c \in TumorNames \cap DOMAIN r : TRUE]

\* the colon-delimited components of the record's sample value: none when the
\* value is missing, the value itself when it is a number
SampleParts(r) ==
    IF SampleCell(r).kind = "str" THEN str_split(SampleCell(r).str, ":")
    ELSE IF notnull(SampleCell(r)) THEN <<SampleCell(r)>> ELSE <<>>

\* whether component i of the sample value is a number, and that number
PartIsNumber(r, i) ==
    IF SampleCell(r).kind = "str" THEN float_ok(SampleParts(r)[i])
    ELSE SampleCell(r).kind /= "bool"

PartNumber(r, i) ==
    IF SampleCell(r).kind = "str" THEN float_val(SampleParts(r)[i]) ELSE SampleCell(r).num

\* the indexes at which the record's FORMAT declares the allele fraction
FractionIndexes(r) == {i \in 1..Len(FormatNames(r)) : FormatNames(r)[i] \in AlleleFractionNames}

FractionIndex(r) == CHOOSE i \in FractionIndexes(r) : \A j \in FractionIndexes(r) : i <= j

\* the FORMAT names of r place the allele fraction at a component the sample
\* value has, and that component is a number
Resolvable(r) ==
    /\ FractionIndexes(r) /= {}
    /\ FractionIndex(r) <= Len(SampleParts(r))
    /\ PartIsNumber(r, FractionIndex(r))

\* the record's own allele fraction: the component of its sample value at the
\* index its FORMAT declares for the allele fraction (0.0 when the field is
\* not declared, the component is missing or it is not a number)
OwnVAF(r) == IF Resolvable(r) THEN PartNumber(r, FractionIndex(r)) ELSE float_zero(FALSE)

\* the keys of the rows of a DataFrame whose own allele fraction reaches the threshold
FilteredKeys(df) ==
    {RowKey(df.rows[i]) : i \in {n \in 1..Len(df.rows) : float_ge(OwnVAF(df.rows[n]), VAF_THRESHOLD)}}

\* C11: the VAF-filtered (tp, fp, fn) reported by deepsomatic_scores equals
\* match(F(truth), F(query)), F dropping each record whose own allele fraction
\* is below the threshold: a key kept only in the query is a filtered false
\* positive, a key kept only in the truth a filtered false negative.  Stated on
\* the keys of the reported rows, so that repeated rows do not matter.
C11_FilteredIsMatchOfFiltered ==
    SA_Reported =>
        LET FT == FilteredKeys(truth_variants)
            FQ == FilteredKeys(query_variants)
        IN  /\ {RowKey(result.tp_f[i].x) : i \in 1..Len(result.tp_f)} = FT \cap FQ
            /\ {RowKey(result.fp_f[i].x) : i \in 1..Len(result.fp_f)} = FQ \ FT
            /\ {RowKey(result.fn_f[i].x) : i \in 1..Len(result.fn_f)} = FT \ FQ

----------------------------------------------------------------------------
(* Symmetry of the matcher *)

\* C12: compare_variants(A, B) and compare_variants(B, A) have the same
\* true-positive set, and the false-positive set of each is the false-negative
\* set of the other.
C12_SwapSymmetric ==
    (prog = "compare_variants" /\ pc = "done") =>
        /\ result.ab.tp = result.ba.tp
        /\ result.ab.fp = result.ba.fn
        /\ result.ab.fn = result.ba.fp

\* a swap in which the two sets overlap and each has a key of its own
C12_Witness ==
    /\ prog = "compare_variants" /\ pc = "done"
    /\ result.ab.tp /= {} /\ result.ab.fp /= {} /\ result.ab.fn /= {}
    /\ result.ab.fp /= result.ab.fn

----------------------------------------------------------------------------
(* Allele-fraction extraction *)

\* the error-free runs of the scoring, and the runs the extraction ended
SA_Extracted == prog = "somatic_analysis" /\ pc \in {"done", "failed_prints"}
SA_ExtractionFailed == prog = "somatic_analysis" /\ pc = "failed_vaf"

\* the records the VAF is extracted for: the called record of a true or false
\* positive, the truth record of a false negative (the left row of each merge)
ScoredRecords ==
    {result.tp[i].x : i \in 1..Len(result.tp)}
        \cup {result.fp[i].x : i \in 1..Len(result.fp)}
        \cup {result.fn[i].x : i \in 1..Len(result.fn)}

\* C13: the VAF deepsomatic_scores uses for a record is the component of the
\* sample value at the index its FORMAT gives the allele-fraction name, for
\* true positives, false positives and false negatives alike, whenever the
\* sample value has that component.
C13_VafByName ==
    /\ SA_Extracted =>
          /\ \A i \in 1..Len(result.tp) :
                Resolvable(result.tp[i].x) => result.tp[i].VAF_VALUE = OwnVAF(result.tp[i].x)
          /\ \A i \in 1..Len(result.fp) :
                Resolvable(result.fp[i].x) => result.fp[i].VAF_VALUE = OwnVAF(result.fp[i].x)
          /\ \A i \in 1..Len(result.fn) :
                Resolvable(result.fn[i].x) => result.fn[i].VAF_VALUE = OwnVAF(result.fn[i].x)
    \* an extraction that raises gives no record its value
    /\ SA_ExtractionFailed => \A r \in ScoredRecords : ~Resolvable(r)

\* C14: the extraction raises no error: a record whose FORMAT lacks the
\* allele-fraction name, or whose sample value is too short or not a number
\* there, gets the VAF 0.0, and the scoring goes on to its reports.
C14_FailsSoft ==
    /\ SA_ExtractionFailed => \A r \in ScoredRecords : Resolvable(r)
    /\ SA_Extracted =>
          /\ \A i \in 1..Len(result.tp) :
                ~Resolvable(result.tp[i].x) => result.tp[i].VAF_VALUE = float_zero(FALSE)
          /\ \A i \in 1..Len(result.fp) :
                ~Resolvable(result.fp[i].x) => result.fp[i].VAF_VALUE = float_zero(FALSE)
          /\ \A i \in 1..Len(result.fn) :
                ~Resolvable(result.fn[i].x) => result.fn[i].VAF_VALUE = float_zero(FALSE)

----------------------------------------------------------------------------
(* Composition of the filters *)

\* the rows of a table that pass every configured option, in the table's order
ConjunctionOfFilters(df) == SelectSeq(df.rows, PassesEveryOption)

\* C15: filters compose by conjunction: a record is in the filtered output
\* if and only if its FILTER label is not excluded, its position lies in
\* [MIN_REGION, MAX_REGION] and its chromosome is allowed, and the surviving
\* records keep their input order.
C15_Conjunction ==
    (prog = "somatic_analysis" /\ pc = "scores") =>
        /\ query_variants.rows = ConjunctionOfFilters(query_file.df)
        /\ truth_variants.rows = ConjunctionOfFilters(truth_file.df)

====
